---- MODULE Spec2Model ----
(***************************************************************************)
(* Runtime inspection bridge of dyright: ConfigLoader, KernelClient,       *)
(* InspectionClient and RuntimeInspectionService.inspectForHover, as one   *)
(* state machine.  One Node.js event loop: every action below is one       *)
(* macrotask (an API call, a timer, a socket message, an HTTP completion)  *)
(* or one promise continuation (microtask); continuations run before the   *)
(* next macrotask.                                                         *)
(***************************************************************************)
EXTENDS Integers, Sequences, FiniteSets, TLC

----------------------------------------------------------------------------
(* Bounds of the model *)

\* number of inspectForHover invocations
MaxCalls == 1
\* number of direct calls of the derived kernel operations
MaxExec == 2
\* output chunks accumulated by one pending execution of a direct caller
MaxOutput == 2
\* output chunks accumulated by one pending execution of an inspectForHover call
MaxCallOutput == 1
\* Date.now() at construction, and how far the clock advances
StartNow == 60000
TickMs == 30000
MaxTicks == 2

(* Program constants *)

\* InspectionClient._healthCheckIntervalMs
healthCheckIntervalMs == 30000

CallIds == 1..MaxCalls
\* every call issues at most three kernel executions
MsgIds == 1..(3 * MaxCalls + MaxExec)
\* a parent id no execution of this client was registered under
ForeignId == 3 * MaxCalls + MaxExec + 1

----------------------------------------------------------------------------
(* ConfigLoader *)

NoPolicy == [def |-> FALSE]
Policy(maxSizeMb, timeoutMs, mode) ==
    [def |-> TRUE, maxSizeMb |-> maxSizeMb, timeoutMs |-> timeoutMs, copyStrategy |-> mode]

\* fully qualified type names, as their dotted segments
DataFrameT == <<"pandas", "DataFrame">>
DataFrameLongT == <<"pandas", "core", "frame", "DataFrame">>
IntT == <<"builtins", "int">>
StaticTypes == {DataFrameT, DataFrameLongT, IntT}

NoConfig == [def |-> FALSE]
\* lspContext.json contents that pass validateConfig, after the merge with defaults
ConfigA ==
    [def |-> TRUE, enabled |-> TRUE, port |-> 8765, connectionFile |-> "k1",
     typeInspections |-> (DataFrameT :> Policy(50, 2000, "shallow"))]
\* a file that turns the inspection off and carries another policy for the type
ConfigB ==
    [ConfigA EXCEPT !.enabled = FALSE,
                    !.typeInspections = (DataFrameT :> Policy(200, 5000, "deep"))]
ValidConfigs == {ConfigA, ConfigB}
\* a file that names another kernel connection file and another gateway port
ConfigC == [ConfigA EXCEPT !.port = 9000, !.connectionFile = "k2"]
\* what load() can find on disk: no file, one that fails to parse, one that
\* fails validateConfig, or a valid one
FileStates ==
    {[kind |-> k, cfg |-> NoConfig] : k \in {"missing", "unparsable", "invalid"}}
        \cup {[kind |-> "valid", cfg |-> c] : c \in ValidConfigs}

\* ConfigLoader.load: the new value of _config
load(cfg, file) ==
    IF file.kind \in {"missing", "unparsable"} THEN NoConfig
    ELSE IF file.kind = "invalid" THEN cfg
    ELSE file.cfg

\* ConfigLoader.load: its return value
loadResult(file) == file.cfg

isEnabled(cfg) == cfg.def /\ cfg.enabled

\* a getTypeConfig that knows the exact name only
getTypeConfigExactOnly(cfg, t) ==
    IF ~cfg.def THEN NoPolicy
    ELSE IF t \in DOMAIN cfg.typeInspections THEN cfg.typeInspections[t]
    ELSE NoPolicy

getTypeConfig(cfg, t) ==
    IF ~cfg.def THEN NoPolicy
    ELSE IF t \in DOMAIN cfg.typeInspections THEN cfg.typeInspections[t]
    ELSE IF Len(t) > 2 /\ <<t[1], t[Len(t)]>> \in DOMAIN cfg.typeInspections
         THEN cfg.typeInspections[<<t[1], t[Len(t)]>>]
    ELSE NoPolicy

----------------------------------------------------------------------------
(* Kernel output: one chunk is one printed line; the derived operations     *)
(* parse the last line of the joined output as JSON.                        *)

\* the absent runtimeType of a parsed result
NoType == <<>>

JsonObj(exists, runtimeType, success, sizeMb, error) ==
    [kind |-> "obj", exists |-> exists, runtimeType |-> runtimeType,
     success |-> success, sizeMb |-> sizeMb, error |-> error]
JsonNull == [kind |-> "null"]
JsonThrow == [kind |-> "throw"]

\* a DataFrame (type(obj).__module__ + "." + __qualname__), an int, an unbound name
ValidateLines == {"V_frame", "V_other", "V_missing"}
SizeLines == {"S_50", "S_120", "S_fail"}
SerializeLines == {"P_ok", "P_fail"}
\* what the kernel may print for a request of each kind; "" is an
\* execute_result without text/plain
LinesOf(op) ==
    (CASE op = "validateType" -> ValidateLines
       [] op = "estimateSize" -> SizeLines
       [] op = "serializeObject" -> SerializeLines) \cup {"garbage", "null"}

MockLine == "M_zmq"

\* JSON.parse of a line; fields a result lacks read as undefined (falsy, -1 for a size)
JsonParse(line, stype) ==
    CASE line = "V_frame" -> JsonObj(TRUE, DataFrameLongT, FALSE, -1, "")
      [] line = "V_other" -> JsonObj(TRUE, IntT, FALSE, -1, "")
      [] line = "V_missing" -> JsonObj(FALSE, NoType, FALSE, -1, "Name not defined")
      [] line = "S_50" -> JsonObj(FALSE, NoType, TRUE, 50, "")
      [] line = "S_120" -> JsonObj(FALSE, NoType, TRUE, 120, "")
      [] line = "S_fail" -> JsonObj(FALSE, NoType, FALSE, 0, "size error")
      [] line = "P_ok" -> JsonObj(FALSE, NoType, TRUE, -1, "")
      [] line = "P_fail" -> JsonObj(FALSE, NoType, FALSE, -1, "pickle error")
      [] line = MockLine -> JsonObj(FALSE, NoType, FALSE, -1, "ZMQ not available")
      [] line = "null" -> JsonNull
      [] OTHER -> JsonThrow

\* result.trim().split('\n') and its last element
LastLine(output) ==
    LET text == SelectSeq(output, LAMBDA l : l # "")
    IN IF text = <<>> THEN "" ELSE text[Len(text)]

----------------------------------------------------------------------------
VARIABLES
    config,             \* ConfigLoader._config
    isInitialized,      \* RuntimeInspectionService._isInitialized
    watching,           \* ConfigLoader._fileWatcher is set
    initPc,             \* where initialize() is
    kstate,             \* KernelClient._state
    shellSocket,        \* KernelClient._shellSocket is set
    iopubSocket,        \* KernelClient._iopubSocket is set (it has the message handler)
    connectionInfo,     \* KernelClient._connectionInfo is set
    transport,          \* how the transport set-up of the last connect() ended
    pendingExecutions,  \* KernelClient._pendingExecutions: msg id -> accumulated output
    executions,         \* every execute() that registered: promise, timer, request
    nextMsgId,          \* the next fresh msg_id
    kernelQueue,        \* requests the kernel received and has not finished
    lastEmit,           \* events _emit delivered during the last step
    ic,                 \* RuntimeInspectionService._inspectionClient
    now,                \* Date.now()
    calls,              \* the inspectForHover invocations
    requests,           \* the operations of InspectionClient invoked directly
    namespace,          \* the names bound in the kernel's interpreter namespace
    hovers,             \* the getHover invocations of RuntimeAwareHoverProvider
    listeners,          \* KernelClient._listeners, in the order they were added
    heard               \* what _emit called each listener with during the last step

svcVars == <<config, isInitialized, watching, initPc>>
sockVars == <<kstate, shellSocket, iopubSocket, connectionInfo, transport>>
execVars == <<pendingExecutions, executions, nextMsgId, kernelQueue>>
otherVars == <<requests, namespace, hovers>>
listenVars == <<listeners, heard>>
vars == <<svcVars, sockVars, execVars, lastEmit, ic, now, calls, otherVars, listenVars>>

----------------------------------------------------------------------------
(* KernelClient *)

PendingPromise == [state |-> "pending", result |-> <<>>, error |-> ""]

\* the promise's reject: the first settlement wins
reject(e, err) ==
    [e EXCEPT !.promise = IF @.state = "pending"
                          THEN [state |-> "rejected", result |-> <<>>, error |-> err]
                          ELSE @,
              !.settleCalls = @ + 1]

\* the promise's resolve
resolve(e, out) ==
    [e EXCEPT !.promise = IF @.state = "pending"
                          THEN [state |-> "resolved", result |-> out, error |-> ""]
                          ELSE @,
              !.settleCalls = @ + 1]

\* _mockExecute: Promise.resolve of the fixed text
mockExecute == [state |-> "resolved", result |-> <<MockLine>>, error |-> ""]

\* a clearTimeout that leaves the timer running
clearTimeoutNoEffect(e) == e

clearTimeout(e) == [e EXCEPT !.timer = IF @ = "armed" THEN "cleared" ELSE @]

EmptyMap == [k \in {} |-> <<>>]

\* Map.delete on _pendingExecutions
MapDelete(map, id) == [k \in DOMAIN map \ {id} |-> map[k]]

\* the number of entries a removal of `ids` takes out of the map, per execution
CountRemoved(ex, ids) ==
    [k \in DOMAIN ex |-> IF k \in ids THEN [ex[k] EXCEPT !.removals = @ + 1] ELSE ex[k]]

Event(type, msgId, info) == [type |-> type, msgId |-> msgId, info |-> info]

\* the listeners a caller can register: one that throws whenever it is called,
\* and one that returns
ListenerNames == {"throwing", "quiet"}
Throws(listener) == listener = "throwing"

\* an _emit whose loop calls the listeners without try/catch: the first
\* exception ends the loop and leaves _emit
RECURSIVE emitWithoutCatch(_, _)
emitWithoutCatch(ls, event) ==
    IF ls = <<>> THEN [called |-> {}, escaped |-> FALSE]
    ELSE IF Throws(Head(ls)) THEN [called |-> {Head(ls)}, escaped |-> TRUE]
    ELSE LET rest == emitWithoutCatch(Tail(ls), event)
         IN [called |-> {Head(ls)} \cup rest.called, escaped |-> rest.escaped]

\* _emit: each listener is called inside try/catch, so the loop goes on after
\* a listener threw; `called` are the listeners called with the event and
\* `escaped` says whether an exception left _emit
RECURSIVE emit(_, _)
emit(ls, event) ==
    IF ls = <<>> THEN [called |-> {}, escaped |-> FALSE]
    ELSE LET rest == emit(Tail(ls), event)
         IN [called |-> {Head(ls)} \cup rest.called, escaped |-> rest.escaped]

NothingHeard == [by |-> [l \in ListenerNames |-> <<>>], escaped |-> FALSE]

\* the _emit calls of one handler, in order; an exception that leaves _emit
\* ends the handler
RECURSIVE emitAll(_, _)
emitAll(ls, events) ==
    IF events = <<>> THEN NothingHeard
    ELSE LET first == emit(ls, Head(events))
             rest == IF first.escaped THEN NothingHeard ELSE emitAll(ls, Tail(events))
         IN [by |-> [l \in ListenerNames |->
                       (IF l \in first.called THEN <<Head(events)>> ELSE <<>>) \o rest.by[l]],
             escaped |-> first.escaped \/ rest.escaped]

\* every handler emits its events to the registered listeners
Deliver ==
    /\ heard' = emitAll(listeners, lastEmit')
    /\ UNCHANGED listeners

\* _setState: the state_change events of a walk through `states`, from `from`
RECURSIVE StateChanges(_, _)
StateChanges(from, states) ==
    IF states = <<>> THEN <<>>
    ELSE (IF Head(states) # from
          THEN <<Event("state_change", 0, Head(states))>> ELSE <<>>)
         \o StateChanges(Head(states), Tail(states))

isConnected == kstate = "Connected"

\* connect(connectionFilePath): fileOk says whether the connection file loads,
\* zmq how far the transport set-up gets
connect(fileOk, zmq) ==
    /\ IF ~fileOk
       THEN /\ kstate' = "Error"
            /\ lastEmit' = StateChanges(kstate, <<"Connecting", "Error">>)
            /\ UNCHANGED <<shellSocket, iopubSocket, connectionInfo, transport>>
       ELSE /\ connectionInfo' = TRUE
            /\ kstate' = "Connected"
            /\ lastEmit' = StateChanges(kstate, <<"Connecting", "Connected">>)
            /\ shellSocket' = IF zmq \in {"ok", "shellOnly"} THEN TRUE ELSE shellSocket
            /\ iopubSocket' = IF zmq = "ok" THEN TRUE ELSE iopubSocket
            /\ transport' = IF zmq = "ok" THEN "zmq" ELSE "unavailable"
    /\ UNCHANGED execVars

\* a disconnect() that rejects the pending executions and forgets clear()
disconnectWithoutClear ==
    /\ executions' =
          [k \in DOMAIN executions |->
              IF k \in DOMAIN pendingExecutions
              THEN reject(clearTimeout(executions[k]), "Disconnected")
              ELSE executions[k]]
    /\ UNCHANGED pendingExecutions
    /\ shellSocket' = FALSE
    /\ iopubSocket' = FALSE
    /\ connectionInfo' = FALSE
    /\ transport' = "none"
    /\ kstate' = "Disconnected"
    /\ lastEmit' = StateChanges(kstate, <<"Disconnected">>)
    /\ UNCHANGED <<nextMsgId, kernelQueue>>

\* disconnect()
disconnect ==
    /\ executions' =
          [k \in DOMAIN executions |->
              IF k \in DOMAIN pendingExecutions
              THEN [reject(clearTimeout(executions[k]), "Disconnected")
                        EXCEPT !.removals = @ + 1]
              ELSE executions[k]]
    /\ pendingExecutions' = EmptyMap
    /\ shellSocket' = FALSE
    /\ iopubSocket' = FALSE
    /\ connectionInfo' = FALSE
    /\ transport' = "none"
    /\ kstate' = "Disconnected"
    /\ lastEmit' = StateChanges(kstate, <<"Disconnected">>)
    /\ UNCHANGED <<nextMsgId, kernelQueue>>

\* disconnect() followed by connect(connectionFilePath), as _onConfigChange
\* calls them
reconnect(fileOk, zmq) ==
    /\ executions' =
          [k \in DOMAIN executions |->
              IF k \in DOMAIN pendingExecutions
              THEN [reject(clearTimeout(executions[k]), "Disconnected")
                        EXCEPT !.removals = @ + 1]
              ELSE executions[k]]
    /\ pendingExecutions' = EmptyMap
    /\ UNCHANGED <<nextMsgId, kernelQueue>>
    /\ connectionInfo' = fileOk
    /\ kstate' = IF fileOk THEN "Connected" ELSE "Error"
    /\ lastEmit' = StateChanges(kstate, <<"Disconnected", "Connecting", kstate'>>)
    /\ shellSocket' = (fileOk /\ zmq \in {"ok", "shellOnly"})
    /\ iopubSocket' = (fileOk /\ zmq = "ok")
    /\ transport' = IF ~fileOk THEN "none" ELSE IF zmq = "ok" THEN "zmq" ELSE "unavailable"

\* a setTimeout callback that rejects and leaves the map entry in place
timeoutCallbackWithoutDelete(id) ==
    /\ executions' = [executions EXCEPT ![id] = reject([@ EXCEPT !.timer = "fired"], "Timeout")]
    /\ UNCHANGED pendingExecutions

\* the setTimeout callback of execute
timeoutCallback(id) ==
    /\ executions' =
          [CountRemoved(executions, {id} \cap DOMAIN pendingExecutions) EXCEPT
              ![id] = reject([@ EXCEPT !.timer = "fired"], "Timeout")]
    /\ pendingExecutions' = MapDelete(pendingExecutions, id)

Join(output) == SelectSeq(output, LAMBDA l : l # "")

\* a switch that accumulates the standard-error chunks with the output
handleByTypeStderrAccumulated(parent, mtype, text) ==
         LET pending == pendingExecutions[parent] IN
         CASE mtype \in {"stdout", "stderr"} ->
                /\ pendingExecutions' = [pendingExecutions EXCEPT ![parent] = Append(@, text)]
                /\ lastEmit' = <<Event("stream", parent, mtype)>>
                /\ UNCHANGED executions
           [] mtype = "execute_result" ->
                /\ pendingExecutions' = [pendingExecutions EXCEPT ![parent] = Append(@, text)]
                /\ lastEmit' = <<>>
                /\ UNCHANGED executions
           [] mtype = "error" ->
                /\ pendingExecutions' = MapDelete(pendingExecutions, parent)
                /\ executions' =
                      [CountRemoved(executions, {parent}) EXCEPT
                          ![parent] = reject(clearTimeout(@), "KernelError")]
                /\ lastEmit' = <<Event("execution_error", parent, "KernelError")>>
           [] mtype = "idle" /\ Len(pending) > 0 ->
                /\ pendingExecutions' = MapDelete(pendingExecutions, parent)
                /\ executions' =
                      [CountRemoved(executions, {parent}) EXCEPT
                          ![parent] = resolve(clearTimeout(@), Join(pending))]
                /\ lastEmit' = <<Event("execution_result", parent, "")>>
           [] OTHER ->
                /\ lastEmit' = <<>>
                /\ UNCHANGED <<pendingExecutions, executions>>

\* a switch whose idle case resolves whether or not output was accumulated
handleByTypeIdleAlwaysResolves(parent, mtype, text) ==
         LET pending == pendingExecutions[parent] IN
         CASE mtype = "stdout" ->
                /\ pendingExecutions' = [pendingExecutions EXCEPT ![parent] = Append(@, text)]
                /\ lastEmit' = <<Event("stream", parent, "stdout")>>
                /\ UNCHANGED executions
           [] mtype = "stderr" ->
                /\ lastEmit' = <<Event("stream", parent, "stderr")>>
                /\ UNCHANGED <<pendingExecutions, executions>>
           [] mtype = "execute_result" ->
                /\ pendingExecutions' = [pendingExecutions EXCEPT ![parent] = Append(@, text)]
                /\ lastEmit' = <<>>
                /\ UNCHANGED executions
           [] mtype = "error" ->
                /\ pendingExecutions' = MapDelete(pendingExecutions, parent)
                /\ executions' =
                      [CountRemoved(executions, {parent}) EXCEPT
                          ![parent] = reject(clearTimeout(@), "KernelError")]
                /\ lastEmit' = <<Event("execution_error", parent, "KernelError")>>
           [] mtype = "idle" ->
                /\ pendingExecutions' = MapDelete(pendingExecutions, parent)
                /\ executions' =
                      [CountRemoved(executions, {parent}) EXCEPT
                          ![parent] = resolve(clearTimeout(@), Join(pending))]
                /\ lastEmit' = <<Event("execution_result", parent, "")>>
           [] OTHER ->
                /\ lastEmit' = <<>>
                /\ UNCHANGED <<pendingExecutions, executions>>

\* _handleIopubMessage past its lookup: the switch on the message type
handleByType(parent, mtype, text) ==
         LET pending == pendingExecutions[parent] IN
         CASE mtype = "stdout" ->
                /\ pendingExecutions' = [pendingExecutions EXCEPT ![parent] = Append(@, text)]
                /\ lastEmit' = <<Event("stream", parent, "stdout")>>
                /\ UNCHANGED executions
           [] mtype = "stderr" ->
                /\ lastEmit' = <<Event("stream", parent, "stderr")>>
                /\ UNCHANGED <<pendingExecutions, executions>>
           [] mtype = "execute_result" ->
                /\ pendingExecutions' = [pendingExecutions EXCEPT ![parent] = Append(@, text)]
                /\ lastEmit' = <<>>
                /\ UNCHANGED executions
           [] mtype = "error" ->
                /\ pendingExecutions' = MapDelete(pendingExecutions, parent)
                /\ executions' =
                      [CountRemoved(executions, {parent}) EXCEPT
                          ![parent] = reject(clearTimeout(@), "KernelError")]
                /\ lastEmit' = <<Event("execution_error", parent, "KernelError")>>
           [] mtype = "idle" /\ Len(pending) > 0 ->
                /\ pendingExecutions' = MapDelete(pendingExecutions, parent)
                /\ executions' =
                      [CountRemoved(executions, {parent}) EXCEPT
                          ![parent] = resolve(clearTimeout(@), Join(pending))]
                /\ lastEmit' = <<Event("execution_result", parent, "")>>
           [] OTHER ->
                /\ lastEmit' = <<>>
                /\ UNCHANGED <<pendingExecutions, executions>>

\* a _handleIopubMessage that reports the errors of requests it does not know
handleIopubMessageReportsUnknown(parent, mtype, text) ==
    IF parent \notin DOMAIN pendingExecutions
    THEN /\ lastEmit' = IF mtype = "error"
                        THEN <<Event("execution_error", parent, "KernelError")>> ELSE <<>>
         /\ UNCHANGED <<pendingExecutions, executions>>
    ELSE handleByType(parent, mtype, text)

\* a _handleIopubMessage that hands a message it cannot place to the oldest
\* pending execution
handleIopubMessageToOldest(parent, mtype, text) ==
    IF pendingExecutions = EmptyMap
    THEN /\ lastEmit' = <<>>
         /\ UNCHANGED <<pendingExecutions, executions>>
    ELSE IF parent \notin DOMAIN pendingExecutions
    THEN handleByType(CHOOSE id \in DOMAIN pendingExecutions :
                         \A other \in DOMAIN pendingExecutions : id <= other,
                      mtype, text)
    ELSE handleByType(parent, mtype, text)

\* _handleIopubMessage past its parsing, for a message whose parent header
\* names `parent`
handleIopubMessage(parent, mtype, text) ==
    IF parent \notin DOMAIN pendingExecutions
    THEN /\ lastEmit' = <<>>
         /\ UNCHANGED <<pendingExecutions, executions>>
    ELSE handleByType(parent, mtype, text)

\* the multipart message of the wire protocol: routing frames, the delimiter,
\* the signature, then header, parent header, metadata and content as JSON
Delimiter == "<IDS|MSG>"
\* connectionInfo.key of the session, and a key the session does not have
SessionKey == "session-key"
KeysOfOthers == {"other-key"}

\* one frame: its text (str) and what JSON.parse reads from it
Frame(str, msgType, msgId, name, text, mac) ==
    [str |-> str, msgType |-> msgType, msgId |-> msgId, name |-> name, text |-> text,
     mac |-> mac]
\* frames[i] past the end: undefined
NoFrame == Frame("", "", 0, "", "", <<>>)

\* header.msg_type and content.name / content.execution_state of a message kind
HeaderType(mtype) ==
    CASE mtype \in {"stdout", "stderr"} -> "stream"
      [] mtype \in {"idle", "busy"} -> "status"
      [] OTHER -> mtype

\* createHmac('sha256', key) updated with the four JSON segments: equal keys
\* and equal segments give equal signatures, and nothing else does
Hmac(key, header, parent, metadata, content) ==
    <<key, header.msgType, parent.msgId, metadata.str, content.name, content.text>>

\* the frames of a message of kind mtype about request `parent`, after k
\* routing frames, signed with `key`; shape says which frames are there
InboundFrames(k, key, parent, mtype, text, shape) ==
    LET header == Frame("{header}", HeaderType(mtype), 0, "", "", <<>>)
        parentHeader == Frame("{parent_header}", "", parent, "", "", <<>>)
        metadata == Frame("{}", "", 0, "", "", <<>>)
        content == Frame("{content}", "", 0, mtype, text, <<>>)
        signature == Frame("hmac", "", 0, "", "",
                           Hmac(key, header, parentHeader, metadata, content))
        routing == [i \in 1..k |-> Frame("topic", "", 0, "", "", <<>>)]
        delimiter == Frame(Delimiter, "", 0, "", "", <<>>)
    IN CASE shape = "full" ->
               routing \o <<delimiter, signature, header, parentHeader, metadata, content>>
         [] shape = "noDelimiter" ->
               routing \o <<signature, header, parentHeader, metadata, content>>
         [] shape = "short" ->
               routing \o <<delimiter, signature, header, parentHeader>>

\* frames[i]?.toString()
FrameAt(frames, i) == IF i \in 1..Len(frames) THEN frames[i] ELSE NoFrame

\* frames.findIndex(f => f.toString() === '<IDS|MSG>'), counted from 1; 0: none
findDelimiter(frames) ==
    IF \E i \in 1..Len(frames) : frames[i].str = Delimiter
    THEN CHOOSE i \in 1..Len(frames) :
             /\ frames[i].str = Delimiter
             /\ \A j \in 1..(i - 1) : frames[j].str # Delimiter
    ELSE 0

\* the signature frame is the HMAC of the four segments under the session's key
SignatureValid(frames) ==
    LET d == findDelimiter(frames) IN
    /\ d # 0
    /\ FrameAt(frames, d + 1).mac =
          Hmac(SessionKey, FrameAt(frames, d + 2), FrameAt(frames, d + 3),
               FrameAt(frames, d + 4), FrameAt(frames, d + 5))

\* the message kind the switch sees: header.msg_type with content.name or
\* content.execution_state
KindOf(header, content) ==
    IF header.msgType \in {"stream", "status"} THEN content.name ELSE header.msgType

\* _handleIopubMessage(frames)
handleIopubFrames(frames) ==
    LET d == findDelimiter(frames)
        header == FrameAt(frames, d + 2)
        parentHeader == FrameAt(frames, d + 3)
        content == FrameAt(frames, d + 5)
    IN IF Len(frames) < 7 \/ d = 0 \/ header.str = "" \/ content.str = ""
       THEN /\ lastEmit' = <<>>
            /\ UNCHANGED <<pendingExecutions, executions>>
       ELSE handleIopubMessage(parentHeader.msgId, KindOf(header, content), content.text)

\* what the kernel publishes: one topic frame, and its own signature
KernelFrames(parent, mtype, text) ==
    InboundFrames(1, SessionKey, parent, mtype, text, "full")

\* the subscriber socket bound to _handleIopubMessage is open
SubscriberLive == iopubSocket

\* an executor that sets no deadline timer
registerWithoutTimer(op, c, sendOk) ==
    LET sent == sendOk /\ connectionInfo IN
    /\ executions' = executions @@ (nextMsgId :>
           [op |-> op, call |-> c, timer |-> "cleared", sent |-> sent,
            promise |-> IF sent THEN PendingPromise
                        ELSE [state |-> "rejected", result |-> <<>>, error |-> "SendFailed"],
            settleCalls |-> 0, removals |-> 0])
    /\ pendingExecutions' = pendingExecutions @@ (nextMsgId :> <<>>)
    /\ nextMsgId' = nextMsgId + 1
    /\ kernelQueue' = IF sent THEN Append(kernelQueue, nextMsgId) ELSE kernelQueue

\* the Promise executor of execute(), for derived operation `op` on behalf of
\* call c (0: a direct caller); sendOk says whether the socket's send returns
register(op, c, sendOk) ==
    LET sent == sendOk /\ connectionInfo IN
    /\ executions' = executions @@ (nextMsgId :>
           [op |-> op, call |-> c, timer |-> "armed", sent |-> sent,
            promise |-> IF sent THEN PendingPromise
                        ELSE [state |-> "rejected", result |-> <<>>, error |-> "SendFailed"],
            settleCalls |-> 0, removals |-> 0])
    /\ pendingExecutions' = pendingExecutions @@ (nextMsgId :> <<>>)
    /\ nextMsgId' = nextMsgId + 1
    /\ kernelQueue' = IF sent THEN Append(kernelQueue, nextMsgId) ELSE kernelQueue

----------------------------------------------------------------------------
(* The derived kernel operations validateType, estimateSize, serializeObject *)

KernelOps == {"validateType", "estimateSize", "serializeObject"}

\* a catch block that returns the failure object without the error's message
catchResultWithoutError(op, err) ==
    JsonObj(FALSE, NoType, FALSE, IF op = "estimateSize" THEN 0 ELSE -1, "")

\* the object the catch block of a derived operation returns
catchResult(op, err) ==
    JsonObj(FALSE, NoType, FALSE, IF op = "estimateSize" THEN 0 ELSE -1, err)

\* what a derived operation returns once execute has settled with `promise`
derivedResult(op, promise, stype) ==
    IF promise.state = "rejected" THEN catchResult(op, promise.error)
    ELSE LET json == JsonParse(LastLine(promise.result), stype)
         IN IF json.kind = "throw" THEN catchResult(op, "SyntaxError") ELSE json

----------------------------------------------------------------------------
(* InspectionClient *)

NoClient == [def |-> FALSE, isServerAvailable |-> FALSE, lastHealthCheck |-> 0]
NewClient == [def |-> TRUE, isServerAvailable |-> FALSE, lastHealthCheck |-> 0]

\* a _needsHealthCheck that probes from the interval on
needsHealthCheckFromInterval == now - ic.lastHealthCheck >= healthCheckIntervalMs

needsHealthCheck == now - ic.lastHealthCheck > healthCheckIntervalMs

\* GET /health ends with status ok, with another status, or fails
HealthReplies == {"ok", "degraded", "fail"}

\* checkHealth, once its request has ended
checkHealth(client, reply) ==
    [client EXCEPT !.isServerAvailable = (reply = "ok"), !.lastHealthCheck = now]

NoResult == "<undefined>"
Envelope(success, result, error) ==
    [kind |-> "obj", success |-> success, result |-> result, error |-> error]

ResultTexts == {"Shape: 100x3", ""}
\* the ways POST /inspect ends: a 2xx JSON body, or a rejection of _request
InspectReplies ==
    {[how |-> "body", body |-> Envelope(TRUE, r, NoResult)] : r \in ResultTexts \cup {NoResult}}
        \cup {[how |-> "body", body |-> Envelope(FALSE, NoResult, e)] :
                 e \in {"Inspection timeout", "script error", NoResult}}
        \cup {[how |-> "body", body |-> JsonNull]}
        \cup {[how |-> "reject", body |-> Envelope(FALSE, NoResult, e)] :
                 e \in {"Request timed out after 3000ms", "connect ECONNREFUSED"}}

\* the envelope inspect() returns for a finished request
inspectResponse(reply) == reply.body

UnavailableEnvelope == Envelope(FALSE, NoResult, "Inspection server is not available")

\* the characters of the error texts above
Chars(text) ==
    CASE text = "Inspection timeout" ->
            <<"I","n","s","p","e","c","t","i","o","n"," ","t","i","m","e","o","u","t">>
      [] text = "script error" -> <<"s","c","r","i","p","t"," ","e","r","r","o","r">>
      [] text = "Request timed out after 3000ms" ->
            <<"R","e","q","u","e","s","t"," ","t","i","m","e","d"," ","o","u","t"," ",
              "a","f","t","e","r"," ","3","0","0","0","m","s">>
      [] text = "connect ECONNREFUSED" ->
            <<"c","o","n","n","e","c","t"," ","E","C","O","N","N","R","E","F","U","S","E","D">>
      [] text = "Inspection server is not available" ->
            <<"I","n","s","p","e","c","t","i","o","n"," ","s","e","r","v","e","r"," ",
              "i","s"," ","n","o","t"," ","a","v","a","i","l","a","b","l","e">>
      [] text = "timeout" -> <<"t","i","m","e","o","u","t">>

\* String.prototype.includes: `part` occurs in `whole` as a run of characters
Includes(whole, part) ==
    \E i \in 1..(Len(whole) - Len(part) + 1) : SubSeq(whole, i, i + Len(part) - 1) = part

\* response.error.includes('timeout')
IncludesTimeout(err) == Includes(Chars(err), Chars("timeout"))

----------------------------------------------------------------------------
(* RuntimeInspectionService.inspectForHover *)

NoAwait == [kind |-> "none", id |-> 0, req |-> "", res |-> JsonNull]
AwaitValue(res) == [kind |-> "value", id |-> 0, req |-> "", res |-> res]
AwaitKernel(id) == [kind |-> "kernel", id |-> id, req |-> "", res |-> JsonNull]
AwaitHttp(req) == [kind |-> "http", id |-> 0, req |-> req, res |-> JsonNull]
Flag(b) == [kind |-> "flag", value |-> b]

NoOutcome == [state |-> "none"]
Result(success, reason, dynamicResult, notes, timing) ==
    [state |-> "resolved", success |-> success, staticType |-> NoType,
     failureReason |-> reason, dynamicResult |-> dynamicResult, notes |-> notes,
     timing |-> timing]
Failure(reason, notes, timing) == Result(FALSE, reason, NoResult, notes, timing)
Rejected == [state |-> "rejected"]

\* nothing awaited yet
NotRun == [kind |-> "none"]

\* one inspectForHover invocation: its program point and locals, the operations
\* it has issued (ops), and what it saw: the service state when it was called
\* (atCall), the value of each await, and the reply of the gateway
IdleCall ==
    [pc |-> "idle", staticType |-> NoType, typeConfig |-> NoPolicy, await |-> NoAwait,
     notes |-> <<>>, timing |-> {}, ops |-> {},
     atCall |-> [config |-> NoConfig, connected |-> FALSE, client |-> FALSE],
     available |-> NotRun, typeValidation |-> NotRun, sizeResult |-> NotRun,
     serialized |-> NotRun, gatewayReply |-> [how |-> "none", body |-> JsonNull],
     outcome |-> NoOutcome]

\* _typesMatch
normalizeType(t) ==
    LET a == IF Len(t) > 3 /\ SubSeq(t, 1, 3) = <<"pandas", "core", "frame">>
             THEN <<"pandas">> \o SubSeq(t, 4, Len(t)) ELSE t
        b == IF Len(a) > 3 /\ SubSeq(a, 1, 3) = <<"pandas", "core", "series">>
             THEN <<"pandas">> \o SubSeq(a, 4, Len(a)) ELSE a
    IN IF Len(b) > 1 /\ b[1] = "builtins" THEN Tail(b) ELSE b

\* a _typesMatch that accepts every pair
typesMatchAlways(staticType, runtimeType) == TRUE

typesMatch(staticType, runtimeType) ==
    staticType = runtimeType \/ normalizeType(staticType) = normalizeType(runtimeType)

\* the awaited promise of call c has settled: its continuation is a queued microtask
Ready(c) ==
    \/ calls[c].await.kind = "value"
    \/ /\ calls[c].await.kind = "kernel"
       /\ executions[calls[c].await.id].promise.state # "pending"
\* the caller of a finished call has not taken its result yet
Returned(c) == calls[c].pc = "done"

\* nothing can reach execution `id` any more: its promise is settled and taken,
\* its timer spent, its map entry gone, and the kernel has finished its request
Spent(id) ==
    /\ executions[id].promise.state # "pending"
    /\ executions[id].timer # "armed"
    /\ id \notin DOMAIN pendingExecutions
    /\ \A i \in 1..Len(kernelQueue) : kernelQueue[i] # id
    /\ \A c \in CallIds : ~(calls[c].await.kind = "kernel" /\ calls[c].await.id = id)

\* continuations run before the next macrotask; the model ends with its last call
MicrotaskPending ==
    \/ \E c \in CallIds : Ready(c) \/ Returned(c)
    \/ \E id \in DOMAIN executions : Spent(id)
    \/ \A c \in CallIds : calls[c].pc = "returned"

\* the value the awaited derived operation of call c returns
StageResult(c) ==
    IF calls[c].await.kind = "value" THEN calls[c].await.res
    ELSE derivedResult(calls[c].pc, executions[calls[c].await.id].promise,
                       calls[c].staticType)

\* the call ends: the async function's promise settles with `outcome`; every
\* result literal carries the staticType argument
Return(c, rec, outcome) ==
    /\ calls' = [calls EXCEPT ![c] =
                   [rec EXCEPT !.pc = "done", !.await = NoAwait,
                               !.outcome = IF outcome.state = "resolved"
                                           THEN [outcome EXCEPT !.staticType = rec.staticType]
                                           ELSE outcome]]
    /\ UNCHANGED execVars

\* a catch block that starts a new timing object
catchBlockWithoutTiming(rec, message) == Failure("InspectionError", <<message>>, {"totalMs"})

\* a catch block that rethrows
catchBlockRethrows(rec, message) == Rejected

\* the catch block of inspectForHover
catchBlock(rec, message) == Failure("InspectionError", <<message>>, rec.timing)

\* execute(code, timeoutMs) on behalf of call c, inside derived operation `op`;
\* sendOk says whether the socket's send returns
execute(c, rec, op, sendOk) ==
    LET next == [rec EXCEPT !.pc = op, !.ops = @ \cup {op}] IN
    IF ~isConnected
    THEN /\ calls' = [calls EXCEPT ![c] =
                [next EXCEPT !.await = AwaitValue(catchResult(op, "Not connected to kernel"))]]
         /\ UNCHANGED execVars
    ELSE IF ~shellSocket
    THEN /\ calls' = [calls EXCEPT ![c] =
                [next EXCEPT !.await =
                    AwaitValue(derivedResult(op, mockExecute, rec.staticType))]]
         /\ UNCHANGED execVars
    ELSE /\ register(op, c, sendOk)
         /\ calls' = [calls EXCEPT ![c] = [next EXCEPT !.await = AwaitKernel(nextMsgId)]]

\* ensureAvailable() on behalf of call c, awaited at program point `pc`
ensureAvailable(c, rec, pc) ==
    /\ calls' = [calls EXCEPT ![c] =
            IF needsHealthCheck
            THEN [rec EXCEPT !.pc = pc, !.await = AwaitHttp("GET /health"),
                             !.ops = @ \cup {"GET /health"}]
            ELSE [rec EXCEPT !.pc = pc, !.await = AwaitValue(Flag(ic.isServerAvailable))]]
    /\ UNCHANGED execVars

\* an inspectForHover that looks at the kernel connection before the policy
inspectForHoverConnectionFirst(c, staticType) ==
    LET typeConfig == getTypeConfig(config, staticType)
        rec == [IdleCall EXCEPT
                   !.staticType = staticType, !.typeConfig = typeConfig,
                   !.timing = {"totalMs"},
                   !.atCall = [config |-> config, connected |-> isConnected,
                               client |-> ic.def]]
    IN IF ~isEnabled(config)
       THEN Return(c, rec, Failure("ConfigNotFound", <<"disabled">>, {"totalMs"}))
       ELSE IF ~isConnected
       THEN Return(c, rec, Failure("KernelNotConnected", <<"not connected">>, {"totalMs"}))
       ELSE IF ~typeConfig.def
       THEN Return(c, rec, Failure("TypeNotConfigured", <<"no inspection configured">>, {"totalMs"}))
       ELSE IF ~ic.def
       THEN Return(c, rec, Failure("ServerUnavailable", <<"not available">>, {"totalMs"}))
       ELSE ensureAvailable(c, rec, "ensureAvailable")

\* an inspectForHover that looks up the policy before the enabled flag
inspectForHoverPolicyFirst(c, staticType) ==
    LET typeConfig == getTypeConfig(config, staticType)
        rec == [IdleCall EXCEPT
                   !.staticType = staticType, !.typeConfig = typeConfig,
                   !.timing = {"totalMs"},
                   !.atCall = [config |-> config, connected |-> isConnected,
                               client |-> ic.def]]
    IN IF ~typeConfig.def
       THEN Return(c, rec, Failure("TypeNotConfigured", <<"no inspection configured">>, {"totalMs"}))
       ELSE IF ~isEnabled(config)
       THEN Return(c, rec, Failure("ConfigNotFound", <<"disabled">>, {"totalMs"}))
       ELSE IF ~isConnected
       THEN Return(c, rec, Failure("KernelNotConnected", <<"not connected">>, {"totalMs"}))
       ELSE IF ~ic.def
       THEN Return(c, rec, Failure("ServerUnavailable", <<"not available">>, {"totalMs"}))
       ELSE ensureAvailable(c, rec, "ensureAvailable")

\* inspectForHover(expression, staticType) up to its first await
inspectForHover(c, staticType) ==
    LET typeConfig == getTypeConfig(config, staticType)
        rec == [IdleCall EXCEPT
                   !.staticType = staticType, !.typeConfig = typeConfig,
                   !.timing = {"totalMs"},
                   !.atCall = [config |-> config, connected |-> isConnected,
                               client |-> ic.def]]
    IN IF ~isEnabled(config)
       THEN Return(c, rec, Failure("ConfigNotFound", <<"disabled">>, {"totalMs"}))
       ELSE IF ~typeConfig.def
       THEN Return(c, rec, Failure("TypeNotConfigured", <<"no inspection configured">>, {"totalMs"}))
       ELSE IF ~isConnected
       THEN Return(c, rec, Failure("KernelNotConnected", <<"not connected">>, {"totalMs"}))
       ELSE IF ~ic.def
       THEN Return(c, rec, Failure("ServerUnavailable", <<"not available">>, {"totalMs"}))
       ELSE ensureAvailable(c, rec, "ensureAvailable")

\* a continuation that goes on whatever ensureAvailable() returned
afterEnsureAvailableIgnored(c, sendOk) ==
    execute(c, [calls[c] EXCEPT !.available = calls[c].await.res], "validateType", sendOk)

\* ... after `await this._inspectionClient.ensureAvailable()`
afterEnsureAvailable(c, sendOk) ==
    LET rec == [calls[c] EXCEPT !.available = calls[c].await.res]
    IN IF ~rec.await.res.value
       THEN Return(c, rec, Failure("ServerUnavailable", <<"not available">>, {"totalMs"}))
       ELSE execute(c, rec, "validateType", sendOk)

\* a continuation that goes from the validation straight to the serialization
afterValidateTypeSkipsSize(c, sendOk) ==
    LET typeValidation == StageResult(c)
        rec == [calls[c] EXCEPT !.timing = @ \cup {"typeValidationMs"},
                                !.typeValidation = typeValidation]
    IN IF typeValidation.kind = "null"
       THEN Return(c, rec, catchBlock(rec, "TypeError"))
       ELSE IF ~typeValidation.exists
       THEN Return(c, rec, Failure("ObjectNotFound", <<typeValidation.error>>, rec.timing))
       ELSE execute(c, rec, "serializeObject", sendOk)

\* a continuation that ends the call on a type mismatch
afterValidateTypeMismatchFails(c, sendOk) ==
    LET typeValidation == StageResult(c)
        rec == [calls[c] EXCEPT !.timing = @ \cup {"typeValidationMs"},
                                !.typeValidation = typeValidation]
    IN IF typeValidation.kind = "null"
       THEN Return(c, rec, catchBlock(rec, "TypeError"))
       ELSE IF ~typeValidation.exists
       THEN Return(c, rec, Failure("ObjectNotFound", <<typeValidation.error>>, rec.timing))
       ELSE IF typeValidation.runtimeType # NoType
               /\ ~typesMatch(rec.staticType, typeValidation.runtimeType)
       THEN Return(c, rec, Failure("TypeMismatch", <<"Type mismatch">>, rec.timing))
       ELSE execute(c, rec, "estimateSize", sendOk)

\* ... after `await this._kernelClient.validateType(...)`
afterValidateType(c, sendOk) ==
    LET typeValidation == StageResult(c)
        rec == [calls[c] EXCEPT !.timing = @ \cup {"typeValidationMs"},
                                !.typeValidation = typeValidation]
    IN IF typeValidation.kind = "null"
       THEN Return(c, rec, catchBlock(rec, "TypeError"))
       ELSE IF ~typeValidation.exists
       THEN Return(c, rec, Failure("ObjectNotFound", <<typeValidation.error>>, rec.timing))
       ELSE execute(c,
                    [rec EXCEPT
                        !.notes = IF typeValidation.runtimeType # NoType
                                     /\ ~typesMatch(rec.staticType, typeValidation.runtimeType)
                                  THEN <<"Type mismatch">> ELSE <<>>],
                    "estimateSize", sendOk)

\* a continuation that looks the policy up again for the size limit
afterEstimateSizeRereadsPolicy(c, sendOk) ==
    LET sizeResult == StageResult(c)
        rec == [calls[c] EXCEPT !.timing = @ \cup {"sizeCheckMs"},
                                !.sizeResult = sizeResult]
        current == getTypeConfig(config, rec.staticType)
        limit == IF current.def THEN current.maxSizeMb ELSE rec.typeConfig.maxSizeMb
    IN IF sizeResult.kind = "null"
       THEN Return(c, rec, catchBlock(rec, "TypeError"))
       ELSE IF ~sizeResult.success
       THEN execute(c, [rec EXCEPT !.notes = Append(@, "Size estimation failed")],
                    "serializeObject", sendOk)
       ELSE IF sizeResult.sizeMb > limit
       THEN Return(c, rec, Failure("SizeExceeded", <<"size exceeds limit">>, rec.timing))
       ELSE execute(c, rec, "serializeObject", sendOk)

\* a continuation that only notes an object over the limit
afterEstimateSizeLenient(c, sendOk) ==
    LET sizeResult == StageResult(c)
        rec == [calls[c] EXCEPT !.timing = @ \cup {"sizeCheckMs"},
                                !.sizeResult = sizeResult]
    IN IF sizeResult.kind = "null"
       THEN Return(c, rec, catchBlock(rec, "TypeError"))
       ELSE IF ~sizeResult.success
       THEN execute(c, [rec EXCEPT !.notes = Append(@, "Size estimation failed")],
                    "serializeObject", sendOk)
       ELSE IF sizeResult.sizeMb > rec.typeConfig.maxSizeMb
       THEN execute(c, [rec EXCEPT !.notes = Append(@, "size exceeds limit")],
                    "serializeObject", sendOk)
       ELSE execute(c, rec, "serializeObject", sendOk)

\* ... after `await this._kernelClient.estimateSize(...)`
afterEstimateSize(c, sendOk) ==
    LET sizeResult == StageResult(c)
        rec == [calls[c] EXCEPT !.timing = @ \cup {"sizeCheckMs"},
                                !.sizeResult = sizeResult]
    IN IF sizeResult.kind = "null"
       THEN Return(c, rec, catchBlock(rec, "TypeError"))
       ELSE IF ~sizeResult.success
       THEN execute(c, [rec EXCEPT !.notes = Append(@, "Size estimation failed")],
                    "serializeObject", sendOk)
       ELSE IF sizeResult.sizeMb > rec.typeConfig.maxSizeMb
       THEN Return(c, rec, Failure("SizeExceeded", <<"size exceeds limit">>, rec.timing))
       ELSE execute(c, rec, "serializeObject", sendOk)

\* a continuation that reports a failed serialization as an inspection error
afterSerializeObjectAsInspectionError(c) ==
    LET serialized == StageResult(c)
        rec == [calls[c] EXCEPT !.timing = @ \cup {"serializationMs"},
                                !.serialized = serialized]
    IN IF serialized.kind = "null"
       THEN Return(c, rec, catchBlock(rec, "TypeError"))
       ELSE IF ~serialized.success
       THEN Return(c, rec, Failure("InspectionError", <<serialized.error>>, rec.timing))
       ELSE ensureAvailable(c, [rec EXCEPT !.ops = @ \cup {"inspect"}], "inspect.ensureAvailable")

\* ... after `await this._kernelClient.serializeObject(...)`, into
\* InspectionClient.inspect up to its `await this.ensureAvailable()`
afterSerializeObject(c) ==
    LET serialized == StageResult(c)
        rec == [calls[c] EXCEPT !.timing = @ \cup {"serializationMs"},
                                !.serialized = serialized]
    IN IF serialized.kind = "null"
       THEN Return(c, rec, catchBlock(rec, "TypeError"))
       ELSE IF ~serialized.success
       THEN Return(c, rec, Failure("SerializationFailed", <<serialized.error>>, rec.timing))
       ELSE ensureAvailable(c, [rec EXCEPT !.ops = @ \cup {"inspect"}], "inspect.ensureAvailable")

\* an inspect that sends its request whatever ensureAvailable() returned
inspectAfterEnsureAvailableSendsAnyway(c) ==
    /\ calls' = [calls EXCEPT ![c] =
            [@ EXCEPT !.pc = "inspect", !.await = AwaitHttp("POST /inspect"),
                      !.ops = @ \cup {"POST /inspect"}]]
    /\ UNCHANGED execVars

\* InspectionClient.inspect after `await this.ensureAvailable()`
inspectAfterEnsureAvailable(c) ==
    /\ calls' = [calls EXCEPT ![c] =
            IF ~calls[c].await.res.value
            THEN [@ EXCEPT !.pc = "inspect", !.await = AwaitValue(UnavailableEnvelope)]
            ELSE [@ EXCEPT !.pc = "inspect", !.await = AwaitHttp("POST /inspect"),
                           !.ops = @ \cup {"POST /inspect"}]]
    /\ UNCHANGED execVars

\* a continuation that reads a missing result as the empty text
afterInspectDefaulting(c) ==
    LET response == calls[c].await.res
        rec == [calls[c] EXCEPT !.timing = @ \cup {"inspectionMs"}]
    IN IF response.kind = "null"
       THEN Return(c, rec, catchBlock(rec, "TypeError"))
       ELSE IF ~response.success
       THEN Return(c, rec,
                   Failure(IF response.error # NoResult /\ IncludesTimeout(response.error)
                           THEN "InspectionTimeout" ELSE "InspectionError",
                           <<response.error>>, rec.timing))
       ELSE Return(c, rec, Result(TRUE, "", IF response.result = NoResult THEN ""
                                            ELSE response.result, rec.notes, rec.timing))

\* ... after `await this._inspectionClient.inspect(request)`
afterInspect(c) ==
    LET response == calls[c].await.res
        rec == [calls[c] EXCEPT !.timing = @ \cup {"inspectionMs"}]
    IN IF response.kind = "null"
       THEN Return(c, rec, catchBlock(rec, "TypeError"))
       ELSE IF ~response.success
       THEN Return(c, rec,
                   Failure(IF response.error # NoResult /\ IncludesTimeout(response.error)
                           THEN "InspectionTimeout" ELSE "InspectionError",
                           <<response.error>>, rec.timing))
       ELSE Return(c, rec, Result(TRUE, "", response.result, rec.notes, rec.timing))

----------------------------------------------------------------------------
(* InspectionClient, its operations invoked directly *)

\* operations in flight at once
MaxRequests == 2
ReqIds == 1..MaxRequests
\* request.inspectionId, chosen by the caller
InspectionIds == {"insp-1", "insp-2"}

ClientOps ==
    {"ensureAvailable", "checkHealth", "inspect", "registerScript", "getRegisteredTypes",
     "shutdown"}

PathOf(op) ==
    CASE op = "inspect" -> "POST /inspect"
      [] op = "registerScript" -> "POST /register"
      [] op = "getRegisteredTypes" -> "GET /types"
      [] op = "shutdown" -> "POST /shutdown"

\* the messages _request rejects with: a socket error, its timer, a status
\* outside 2xx, a body that is no JSON
HttpFailures ==
    {"connect ECONNREFUSED", "Request timed out after 3000ms", "HTTP 500: busy",
     "Failed to parse response"}

IdEnvelope(id, success, result, error) ==
    [kind |-> "obj", inspectionId |-> id, success |-> success, result |-> result,
     error |-> error]

NoReply == [how |-> "none", body |-> JsonNull, error |-> ""]

\* the ways the request of an operation ends: a parsed 2xx body, or a rejection
HttpReplies(op, id) ==
    {[how |-> "body", body |-> b, error |-> ""] :
        b \in (CASE op = "inspect" ->
                      {IdEnvelope(id, TRUE, "Shape: 100x3", NoResult),
                       IdEnvelope(id, FALSE, NoResult, "script error")}
                 [] op = "registerScript" ->
                      {[kind |-> "obj", success |-> TRUE], [kind |-> "obj", success |-> FALSE]}
                 [] op = "getRegisteredTypes" ->
                      {[kind |-> "obj", types |-> <<"pandas.DataFrame">>]}
                 [] op = "shutdown" -> {[kind |-> "obj"]}) \cup {JsonNull}}
        \cup {[how |-> "reject", body |-> JsonNull, error |-> e] : e \in HttpFailures}

AllHttpReplies ==
    UNION {HttpReplies(op, id) :
              op \in {"inspect", "registerScript", "getRegisteredTypes", "shutdown"},
              id \in InspectionIds}

Resolved(value) == [state |-> "resolved", value |-> value]
Thrown(error) == [state |-> "rejected", value |-> [kind |-> "error", message |-> error]]
Void == [kind |-> "void"]
List(items) == [kind |-> "list", items |-> items]

\* one invocation: the operation and its argument, where it is, the requests it
\* has sent, what it saw (the clock against the last probe and the flag when it
\* was called, the value ensureAvailable gave, the replies, the flag right
\* after its own completion) and what it returned
IdleRequest ==
    [op |-> "", pc |-> "idle", inspectionId |-> "", ops |-> {}, elapsed |-> 0,
     cached |-> FALSE, available |-> NotRun, probeReply |-> "", reply |-> NoReply,
     flagAfter |-> FALSE, result |-> NoOutcome]

\* the failure envelope of inspect() that leaves the inspectionId out
failureEnvelopeWithoutId(request, error) == IdEnvelope("", FALSE, NoResult, error)

\* the failure envelope inspect() builds
failureEnvelope(request, error) == IdEnvelope(request.inspectionId, FALSE, NoResult, error)

\* an inspect() that sends its request whatever ensureAvailable() returned
inspectAvailableIgnored(request, available) ==
    [request EXCEPT !.pc = "http", !.ops = @ \cup {"POST /inspect"}]

\* inspect() after `await this.ensureAvailable()`
inspectAvailable(request, available) ==
    IF ~available
    THEN [request EXCEPT
             !.pc = "done",
             !.result = Resolved(failureEnvelope(request, "Inspection server is not available"))]
    ELSE [request EXCEPT !.pc = "http", !.ops = @ \cup {"POST /inspect"}]

\* the caller of ensureAvailable() or checkHealth() goes on with its value
afterAvailable(request, available) ==
    LET rec == [request EXCEPT !.available = Flag(available)]
    IN IF request.op = "inspect" THEN inspectAvailable(rec, available)
       ELSE [rec EXCEPT !.pc = "done", !.result = Resolved(Flag(available))]

\* an operation up to its first HTTP request
startRequest(op, id) ==
    LET base == [IdleRequest EXCEPT !.op = op, !.inspectionId = id,
                                    !.elapsed = now - ic.lastHealthCheck,
                                    !.cached = ic.isServerAvailable]
    IN CASE op \in {"ensureAvailable", "inspect"} ->
               IF needsHealthCheck
               THEN [base EXCEPT !.pc = "health", !.ops = {"GET /health"}]
               ELSE afterAvailable(base, ic.isServerAvailable)
         [] op = "checkHealth" -> [base EXCEPT !.pc = "health", !.ops = {"GET /health"}]
         [] OTHER -> [base EXCEPT !.pc = "http", !.ops = {PathOf(op)}]

\* inspect() after its request ended
inspectResult(request, reply) ==
    IF reply.how = "body" THEN Resolved(reply.body)
    ELSE Resolved(failureEnvelope(request, reply.error))

\* administrative operations that let the rejection of _request through
adminResultUncaught(op, reply) ==
    IF reply.how = "reject" THEN Thrown(reply.error)
    ELSE CASE op = "registerScript" ->
                 IF reply.body.kind = "obj" THEN Resolved(Flag(reply.body.success))
                 ELSE Resolved(Flag(FALSE))
           [] op = "getRegisteredTypes" ->
                 IF reply.body.kind = "obj" THEN Resolved(List(reply.body.types))
                 ELSE Resolved(List(<<>>))
           [] op = "shutdown" -> Resolved(Void)

\* registerScript, getRegisteredTypes and shutdown after their request ended;
\* reading a property of a null body throws inside the try
adminResult(op, reply) ==
    CASE op = "registerScript" ->
             IF reply.how = "body" /\ reply.body.kind = "obj"
             THEN Resolved(Flag(reply.body.success)) ELSE Resolved(Flag(FALSE))
      [] op = "getRegisteredTypes" ->
             IF reply.how = "body" /\ reply.body.kind = "obj"
             THEN Resolved(List(reply.body.types)) ELSE Resolved(List(<<>>))
      [] op = "shutdown" -> Resolved(Void)

----------------------------------------------------------------------------
(* RuntimeAwareHoverProvider *)

\* RuntimeInspectionService.isAvailable
isAvailable ==
    isInitialized /\ isEnabled(config) /\ isConnected /\ ic.def /\ ic.isServerAvailable

\* RuntimeInspectionService.hasTypeConfig
hasTypeConfig(t) == getTypeConfig(config, t).def

\* one line of a hover's markdown text: the text put between a prefix and a suffix
Line(prefix, text, suffix) == [prefix |-> prefix, text |-> text, suffix |-> suffix]
Plain(text) == Line("", text, "")

\* a Hover: its markdown value as lines (join('\n') puts one part on each) and
\* its range; null is NoHover
Hover(value, range) == [def |-> TRUE, value |-> value, range |-> range]
NoHover == [def |-> FALSE, value |-> <<>>, range |-> ""]
\* what the static provider returns for the hovered position
StaticHover == Hover(<<Plain("(variable) df: DataFrame")>>, "static range")
StaticHovers == {NoHover, StaticHover}

\* DEFAULT_OPTIONS, and the options a provider is created with
DefaultOptions == [enableRuntimeInspection |-> TRUE, showTimingInfo |-> FALSE]

\* what one getHover works from: the options, whether a service was passed to
\* the constructor, the static provider's hover, whether the
\* position holds a name with a type, and whether the program has parse results
HoverInput(options, service, staticHover, expression, staticType, parseResults) ==
    [options |-> options, service |-> service, staticHover |-> staticHover,
     expression |-> expression, staticType |-> staticType, parseResults |-> parseResults]

DefaultInput(staticHover, staticType) ==
    HoverInput(DefaultOptions, TRUE, staticHover, TRUE, staticType, TRUE)

\* the default set-up over every static hover and type, and each departure from it
HoverInputs ==
    {DefaultInput(h, t) : h \in StaticHovers, t \in StaticTypes}
        \cup {[DefaultInput(StaticHover, DataFrameT) EXCEPT !.options.enableRuntimeInspection = FALSE],
              [DefaultInput(StaticHover, DataFrameT) EXCEPT !.options.showTimingInfo = TRUE],
              [DefaultInput(StaticHover, DataFrameT) EXCEPT !.service = FALSE],
              [DefaultInput(StaticHover, DataFrameT) EXCEPT !.expression = FALSE],
              [DefaultInput(StaticHover, DataFrameT) EXCEPT !.parseResults = FALSE]}

\* one getHover invocation: its input, what the service answered when it asked
\* (atCall), its deadline timer, how its wait ended, the operations its call
\* had issued if the deadline ended it (opsAtTimeout), the outcome it composed
\* from, and the hover it returned
IdleHover ==
    [state |-> "idle", input |-> DefaultInput(NoHover, NoType),
     atCall |-> [available |-> FALSE, hasTypeConfig |-> FALSE],
     timer |-> "none", waitEnded |-> "none", opsAtTimeout |-> {},
     runtimeResult |-> NoOutcome, result |-> NoHover]

\* _getFailureNote: null is the empty text
getFailureNote(reason) ==
    CASE reason = "KernelNotConnected" -> "Kernel not connected for runtime inspection"
      [] reason = "ObjectNotFound" -> "Variable not found in kernel (may not be defined yet)"
      [] reason = "SizeExceeded" -> "Object too large for runtime inspection"
      [] reason = "InspectionTimeout" -> "Runtime inspection timed out"
      [] OTHER -> ""

\* the line of three backquotes that opens and closes a code block
CodeFence == "[code fence]"

\* the lines of the runtime inspection section
RuntimeSection(dynamicResult) ==
    <<Plain(""), Plain("---"), Plain(""), Plain("**Runtime Inspection:**"),
      Plain(CodeFence), Plain(dynamicResult), Plain(CodeFence)>>

\* a _composeHover that shows whatever result text the outcome carries
composeHoverShowsAnyResult(input, runtimeResult) ==
    Hover(input.staticHover.value \o RuntimeSection(runtimeResult.dynamicResult),
          IF input.staticHover.def THEN input.staticHover.range ELSE "node range")

\* _composeHover
composeHover(input, runtimeResult) ==
    IF ~input.parseResults THEN input.staticHover
    ELSE LET staticContent == IF input.staticHover.def THEN input.staticHover.value ELSE <<>>
             section ==
                 IF runtimeResult.success /\ runtimeResult.dynamicResult \notin {NoResult, ""}
                 THEN RuntimeSection(runtimeResult.dynamicResult)
                 ELSE IF ~runtimeResult.success /\ runtimeResult.failureReason # ""
                         /\ getFailureNote(runtimeResult.failureReason) # ""
                 THEN <<Plain(""), Line("*", getFailureNote(runtimeResult.failureReason), "*")>>
                 ELSE <<>>
             notes ==
                 IF Len(runtimeResult.notes) > 0
                 THEN <<Plain("")>> \o [i \in 1..Len(runtimeResult.notes) |->
                                           Line("> warning ", runtimeResult.notes[i], "")]
                 ELSE <<>>
             timing ==
                 IF input.options.showTimingInfo
                 THEN <<Plain(""), Line("*Inspection: ", "totalMs", "ms*")>>
                 ELSE <<>>
         IN Hover(staticContent \o section \o notes \o timing,
                  IF input.staticHover.def THEN input.staticHover.range ELSE "node range")

\* _getExpressionInfo: whether it finds an expression; it needs the parse
\* results, and a name with a type at the position
getExpressionInfo(input) == input.parseResults /\ input.expression

\* getHover returns `hover`
hoverReturns(rec, how, hover) ==
    [rec EXCEPT !.state = "done", !.waitEnded = how, !.result = hover]

\* getHover up to its await: the checks that return the static hover, then the
\* call of inspectForHover and the deadline timer of _createTimeoutPromise.  A
\* getHover that makes no call uses up its slot of `calls`.
getHover(c, input) ==
    LET rec == [IdleHover EXCEPT
                   !.input = input,
                   !.atCall = [available |-> isAvailable,
                               hasTypeConfig |-> hasTypeConfig(input.staticType)]]
    IN IF \/ ~input.options.enableRuntimeInspection \/ ~input.service \/ ~isAvailable
          \/ ~getExpressionInfo(input)
          \/ ~hasTypeConfig(input.staticType)
       THEN /\ hovers' = [hovers EXCEPT ![c] = hoverReturns(rec, "none", input.staticHover)]
            /\ calls' = [calls EXCEPT ![c].pc = "returned"]
            /\ UNCHANGED execVars
       ELSE /\ inspectForHover(c, input.staticType)
            /\ hovers' = [hovers EXCEPT ![c] = [rec EXCEPT !.state = "waiting", !.timer = "armed"]]

\* the continuation of getHover after Promise.race settled with the outcome of
\* inspectForHover, or its catch block when the race rejected
afterRace(rec, outcome) ==
    IF outcome.state = "rejected"
    THEN hoverReturns(rec, "raised", rec.input.staticHover)
    ELSE [hoverReturns(rec, "outcome", composeHover(rec.input, outcome))
             EXCEPT !.runtimeResult = outcome]

----------------------------------------------------------------------------
(* Actions *)

Init ==
    /\ config = NoConfig
    /\ isInitialized = FALSE
    /\ watching = FALSE
    /\ initPc = "none"
    /\ kstate = "Disconnected"
    /\ shellSocket = FALSE
    /\ iopubSocket = FALSE
    /\ connectionInfo = FALSE
    /\ transport = "none"
    /\ pendingExecutions = EmptyMap
    /\ executions = EmptyMap
    /\ nextMsgId = 1
    /\ kernelQueue = <<>>
    /\ lastEmit = <<>>
    /\ ic = NoClient
    /\ now = StartNow
    /\ calls = [c \in CallIds |-> IdleCall]
    /\ requests = [r \in ReqIds |-> IdleRequest]
    /\ namespace = {}
    /\ hovers = [c \in CallIds |-> IdleHover]
    /\ listeners = <<>>
    /\ heard = NothingHeard

\* the transport set-up succeeds; require('zeromq') throws; or the set-up
\* throws after the shell socket was assigned (its connect, or the subscriber)
ConnectInputs == {"ok", "missing", "shellOnly"}
\* the two clean ends of the set-up, which is all the inspection pipeline is run with
PlainConnectInputs == {"ok", "missing"}

\* initialize() up to `await this._inspectionClient.checkHealth()`
Initialize(file) ==
    /\ ~MicrotaskPending
    /\ initPc = "none"
    /\ config' = load(config, file)
    /\ IF ~loadResult(file).def \/ ~loadResult(file).enabled
       THEN /\ initPc' = "returned"
            /\ UNCHANGED ic
       ELSE /\ initPc' = "checkHealth"
            /\ ic' = NewClient
    /\ lastEmit' = <<>>
    /\ UNCHANGED <<isInitialized, watching, sockVars, execVars, now, calls>>
    /\ UNCHANGED otherVars
    /\ Deliver

\* GET /health of initialize() ends; initialize() runs to its end
InitializeResume(reply, fileOk, zmq) ==
    /\ ~MicrotaskPending
    /\ initPc = "checkHealth"
    /\ ic' = checkHealth(ic, reply)
    /\ connect(fileOk, zmq)
    /\ watching' = TRUE
    /\ isInitialized' = TRUE
    /\ initPc' = "returned"
    /\ UNCHANGED <<config, now, calls>>
    /\ UNCHANGED otherVars
    /\ Deliver

\* the fs.watch callback: load(), then _onConfigChange(this._config)
ConfigFileChange(file) ==
    /\ ~MicrotaskPending
    /\ watching
    /\ config' = load(config, file)
    /\ LET current == config'
           new == config'
       IN /\ ic' = IF new.def /\ ic.def /\ current.port # new.port THEN NewClient ELSE ic
          /\ IF new.def /\ current.connectionFile # new.connectionFile
             THEN \E fileOk \in BOOLEAN, zmq \in PlainConnectInputs : reconnect(fileOk, zmq)
             ELSE /\ lastEmit' = <<>>
                  /\ UNCHANGED <<sockVars, execVars>>
    /\ UNCHANGED <<isInitialized, watching, initPc, now, calls>>
    /\ UNCHANGED otherVars
    /\ Deliver

\* connectToKernel(connectionFilePath)
ConnectToKernel(fileOk, zmq) ==
    /\ ~MicrotaskPending
    /\ connect(fileOk, zmq)
    /\ UNCHANGED <<svcVars, ic, now, calls>>
    /\ UNCHANGED otherVars
    /\ Deliver

\* disconnectKernel()
DisconnectKernel ==
    /\ ~MicrotaskPending
    /\ disconnect
    /\ UNCHANGED <<svcVars, ic, now, calls>>
    /\ UNCHANGED otherVars
    /\ Deliver

\* the deadline timer of execution `id` fires
Timeout(id) ==
    /\ ~MicrotaskPending
    /\ id \in DOMAIN executions
    /\ executions[id].timer = "armed"
    /\ timeoutCallback(id)
    /\ lastEmit' = <<>>
    /\ UNCHANGED <<svcVars, sockVars, nextMsgId, kernelQueue, ic, now, calls>>
    /\ UNCHANGED otherVars
    /\ Deliver

MessageTypes == {"stdout", "stderr", "execute_result", "error", "idle", "busy"}

\* the texts a message of the kernel for request `id` can carry
TextsOf(id, mtype) ==
    IF mtype = "stdout" THEN LinesOf(executions[id].op)
    ELSE IF mtype = "execute_result" THEN {"", "garbage"}
    ELSE {""}

\* the kernel publishes a message about the request it is running, and the
\* subscriber socket delivers it
IopubMessage(mtype) ==
    /\ ~MicrotaskPending
    /\ SubscriberLive
    /\ kernelQueue # <<>>
    /\ LET parent == Head(kernelQueue) IN
         /\ (mtype \in {"stdout", "execute_result"} /\ parent \in DOMAIN pendingExecutions)
               => Len(pendingExecutions[parent]) <
                     (IF executions[parent].call = 0 THEN MaxOutput ELSE MaxCallOutput)
         /\ \E text \in TextsOf(parent, mtype) :
               handleIopubFrames(KernelFrames(parent, mtype, text))
         /\ kernelQueue' = IF mtype = "idle" THEN Tail(kernelQueue) ELSE kernelQueue
    /\ UNCHANGED <<svcVars, sockVars, nextMsgId, ic, now, calls>>
    /\ UNCHANGED otherVars
    /\ Deliver

\* a message of another client's request arrives
ForeignMessage(mtype) ==
    /\ ~MicrotaskPending
    /\ SubscriberLive
    /\ handleIopubFrames(KernelFrames(ForeignId, mtype, ""))
    /\ UNCHANGED <<svcVars, sockVars, nextMsgId, kernelQueue, ic, now, calls>>
    /\ UNCHANGED otherVars
    /\ Deliver

\* the kernel finishes a request while no subscriber socket is open
KernelUnheard ==
    /\ ~MicrotaskPending
    /\ ~SubscriberLive
    /\ kernelQueue # <<>>
    /\ kernelQueue' = Tail(kernelQueue)
    /\ lastEmit' = <<>>
    /\ UNCHANGED <<svcVars, sockVars, pendingExecutions, executions, nextMsgId, ic, now, calls>>
    /\ UNCHANGED otherVars
    /\ Deliver

\* Date.now() advances
Tick ==
    /\ ~MicrotaskPending
    /\ now + TickMs <= StartNow + MaxTicks * TickMs
    /\ now' = now + TickMs
    /\ lastEmit' = <<>>
    /\ UNCHANGED <<svcVars, sockVars, execVars, ic, calls>>
    /\ UNCHANGED otherVars
    /\ Deliver

\* a caller invokes inspectForHover
StartCall(c, staticType) ==
    /\ ~MicrotaskPending
    /\ calls[c].pc = "idle"
    /\ \A d \in CallIds : d < c => calls[d].pc # "idle"
    /\ inspectForHover(c, staticType)
    /\ lastEmit' = <<>>
    /\ UNCHANGED <<svcVars, sockVars, ic, now>>
    /\ UNCHANGED otherVars
    /\ Deliver

\* GET /health of call c ends: checkHealth stores the result
HealthReply(c, reply) ==
    /\ ~MicrotaskPending
    /\ calls[c].await.kind = "http"
    /\ calls[c].await.req = "GET /health"
    /\ ic' = checkHealth(ic, reply)
    /\ calls' = [calls EXCEPT ![c].await = AwaitValue(Flag(ic'.isServerAvailable))]
    /\ lastEmit' = <<>>
    /\ UNCHANGED <<svcVars, sockVars, execVars, now>>
    /\ UNCHANGED otherVars
    /\ Deliver

\* POST /inspect of call c ends
InspectReply(c, reply) ==
    /\ ~MicrotaskPending
    /\ calls[c].await.kind = "http"
    /\ calls[c].await.req = "POST /inspect"
    /\ calls' = [calls EXCEPT ![c].await = AwaitValue(inspectResponse(reply)),
                              ![c].gatewayReply = reply]
    /\ lastEmit' = <<>>
    /\ UNCHANGED <<svcVars, sockVars, execVars, ic, now>>
    /\ UNCHANGED otherVars
    /\ Deliver

\* the continuation of call c after its awaited promise settled
Resume(c) ==
    /\ Ready(c)
    /\ \/ calls[c].pc = "ensureAvailable" /\ \E sendOk \in BOOLEAN : afterEnsureAvailable(c, sendOk)
       \/ calls[c].pc = "validateType" /\ \E sendOk \in BOOLEAN : afterValidateType(c, sendOk)
       \/ calls[c].pc = "estimateSize" /\ \E sendOk \in BOOLEAN : afterEstimateSize(c, sendOk)
       \/ calls[c].pc = "serializeObject" /\ afterSerializeObject(c)
       \/ calls[c].pc = "inspect.ensureAvailable" /\ inspectAfterEnsureAvailable(c)
       \/ calls[c].pc = "inspect" /\ afterInspect(c)
    /\ lastEmit' = <<>>
    /\ UNCHANGED <<svcVars, sockVars, ic, now>>
    /\ UNCHANGED otherVars
    /\ Deliver

\* the caller of call c takes the result
TakeResult(c) ==
    /\ Returned(c)
    /\ calls' = [calls EXCEPT ![c] = [IdleCall EXCEPT !.pc = "returned"]]
    /\ lastEmit' = <<>>
    /\ UNCHANGED <<svcVars, sockVars, execVars, ic, now>>
    /\ UNCHANGED otherVars
    /\ Deliver

\* executions nothing can reach any more are dropped
Collect ==
    /\ \E id \in DOMAIN executions : Spent(id)
    /\ executions' = [id \in {i \in DOMAIN executions : ~Spent(i)} |-> executions[id]]
    /\ lastEmit' = <<>>
    /\ UNCHANGED <<svcVars, sockVars, pendingExecutions, nextMsgId, kernelQueue, ic, now, calls>>
    /\ UNCHANGED otherVars
    /\ Deliver

\* a direct caller invokes validateType, estimateSize or serializeObject
Execute(op, sendOk) ==
    /\ ~MicrotaskPending
    /\ nextMsgId <= MaxExec
    /\ IF isConnected /\ shellSocket
       THEN register(op, 0, sendOk)
       ELSE UNCHANGED execVars
    /\ lastEmit' = <<>>
    /\ UNCHANGED <<svcVars, sockVars, ic, now, calls>>
    /\ UNCHANGED otherVars
    /\ Deliver

\* the service as its owner runs it: initialize(), which connects the kernel,
\* then one inspectForHover, while the configuration file is edited, the kernel
\* is lost, deadlines pass and the clock advances
Next ==
    \/ \E file \in FileStates : Initialize(file)
    \/ \E reply \in HealthReplies, fileOk \in BOOLEAN, zmq \in PlainConnectInputs :
          InitializeResume(reply, fileOk, zmq)
    \/ \E file \in FileStates : ConfigFileChange(file)
    \/ DisconnectKernel
    \/ \E id \in MsgIds : Timeout(id)
    \/ \E mtype \in MessageTypes : IopubMessage(mtype)
    \/ \E mtype \in {"stdout", "error", "idle"} : ForeignMessage(mtype)
    \/ Tick
    \/ \E c \in CallIds, staticType \in StaticTypes : StartCall(c, staticType)
    \/ \E c \in CallIds, reply \in HealthReplies : HealthReply(c, reply)
    \/ \E c \in CallIds, reply \in InspectReplies : InspectReply(c, reply)
    \/ \E c \in CallIds : Resume(c)
    \/ \E c \in CallIds : TakeResult(c)
    \/ Collect

Spec == Init /\ [][Next]_vars

\* the service with connectToKernel() called on it as well, at any time, and
\* its configuration file left alone
NextSession ==
    \/ \E file \in FileStates : Initialize(file)
    \/ \E reply \in HealthReplies, fileOk \in BOOLEAN, zmq \in PlainConnectInputs :
          InitializeResume(reply, fileOk, zmq)
    \/ \E fileOk \in BOOLEAN, zmq \in PlainConnectInputs : ConnectToKernel(fileOk, zmq)
    \/ DisconnectKernel
    \/ \E id \in MsgIds : Timeout(id)
    \/ \E mtype \in MessageTypes : IopubMessage(mtype)
    \/ \E c \in CallIds, staticType \in StaticTypes : StartCall(c, staticType)
    \/ \E c \in CallIds, reply \in HealthReplies : HealthReply(c, reply)
    \/ \E c \in CallIds, reply \in InspectReplies : InspectReply(c, reply)
    \/ \E c \in CallIds : Resume(c)
    \/ \E c \in CallIds : TakeResult(c)
    \/ Collect

SpecSession == Init /\ [][NextSession]_vars

\* KernelClient alone, driven through its public operations
NextKernel ==
    \/ \E fileOk \in BOOLEAN, zmq \in ConnectInputs : ConnectToKernel(fileOk, zmq)
    \/ DisconnectKernel
    \/ \E op \in KernelOps, sendOk \in BOOLEAN : Execute(op, sendOk)
    \/ \E id \in MsgIds : Timeout(id)
    \/ \E mtype \in MessageTypes : IopubMessage(mtype)
    \/ \E mtype \in {"stdout", "error", "idle"} : ForeignMessage(mtype)
    \/ KernelUnheard
    \/ Collect

SpecKernel == Init /\ [][NextKernel]_vars

\* routing frames before the delimiter
MaxRouting == 3
FrameShapes == {"full", "noDelimiter", "short"}

\* the text an inbound message of each kind carries: a printed line, or none
WireText(mtype) == IF mtype = "stdout" THEN "garbage" ELSE ""

\* any multipart message reaches the subscriber socket: of the kernel or of
\* another sender, about any request, framed and signed in any way
WireMessage(k, key, parent, mtype, shape) ==
    /\ ~MicrotaskPending
    /\ SubscriberLive
    /\ parent \in DOMAIN executions \cup {ForeignId}
    /\ (mtype \in {"stdout", "execute_result"} /\ parent \in DOMAIN pendingExecutions)
          => Len(pendingExecutions[parent]) < MaxOutput
    /\ handleIopubFrames(InboundFrames(k, key, parent, mtype, WireText(mtype), shape))
    /\ kernelQueue' = IF /\ key = SessionKey /\ mtype = "idle"
                         /\ kernelQueue # <<>> /\ parent = Head(kernelQueue)
                      THEN Tail(kernelQueue) ELSE kernelQueue
    /\ UNCHANGED <<svcVars, sockVars, nextMsgId, ic, now, calls>>
    /\ UNCHANGED otherVars
    /\ Deliver

\* the parent ids an inbound message can name
WireParents == (1..MaxExec) \cup {ForeignId}

\* the framings tried: k routing frames and a shape
WireFramings ==
    {<<k, "full">> : k \in 0..MaxRouting} \cup {<<2, "noDelimiter">>, <<MaxRouting, "short">>}

\* KernelClient alone, with its inbound messages taken at the level of frames
NextWire ==
    \/ \E fileOk \in BOOLEAN, zmq \in PlainConnectInputs : ConnectToKernel(fileOk, zmq)
    \/ DisconnectKernel
    \/ \E sendOk \in BOOLEAN : Execute("validateType", sendOk)
    \/ \E id \in MsgIds : Timeout(id)
    \/ \E f \in WireFramings, key \in {SessionKey} \cup KeysOfOthers,
          parent \in WireParents, mtype \in {"stdout", "stderr", "error", "idle"} :
          WireMessage(f[1], key, parent, mtype, f[2])
    \/ KernelUnheard
    \/ Collect

SpecWire == Init /\ [][NextWire]_vars

\* an operation has returned and its caller's continuation has not run yet
ResultPending == \E r \in ReqIds : requests[r].pc = "done"

\* Date.now() advances between the operations of the client
ClientTick ==
    /\ ~ResultPending
    /\ Tick

\* new InspectionClient(options)
CreateClient ==
    /\ ~ic.def
    /\ ic' = NewClient
    /\ lastEmit' = <<>>
    /\ UNCHANGED <<svcVars, sockVars, execVars, now, calls, otherVars>>
    /\ Deliver

\* a caller invokes an operation of the client
ClientCall(r, op, id) ==
    /\ ~ResultPending
    /\ ic.def
    /\ requests[r].pc = "idle"
    /\ \A q \in ReqIds : q < r => requests[q].pc # "idle"
    /\ requests' = [requests EXCEPT ![r] = startRequest(op, id)]
    /\ lastEmit' = <<>>
    /\ UNCHANGED <<svcVars, sockVars, execVars, ic, now, calls, namespace, hovers>>
    /\ Deliver

\* GET /health of operation r ends: checkHealth stores the result, and the
\* operation goes on
ClientHealthReply(r, reply) ==
    /\ ~ResultPending
    /\ requests[r].pc = "health"
    /\ ic' = checkHealth(ic, reply)
    /\ requests' = [requests EXCEPT ![r] =
          afterAvailable([@ EXCEPT !.probeReply = reply,
                                   !.flagAfter = ic'.isServerAvailable],
                         ic'.isServerAvailable)]
    /\ lastEmit' = <<>>
    /\ UNCHANGED <<svcVars, sockVars, execVars, now, calls, namespace, hovers>>
    /\ Deliver

\* the request of operation r ends
ClientHttpReply(r, reply) ==
    /\ ~ResultPending
    /\ requests[r].pc = "http"
    /\ reply \in HttpReplies(requests[r].op, requests[r].inspectionId)
    /\ ic' = IF requests[r].op = "shutdown" THEN [ic EXCEPT !.isServerAvailable = FALSE]
             ELSE ic
    /\ requests' = [requests EXCEPT ![r] =
          [@ EXCEPT !.pc = "done", !.reply = reply,
                    !.flagAfter = IF requests[r].op = "shutdown" THEN ic'.isServerAvailable ELSE @,
                    !.result = IF requests[r].op = "inspect" THEN inspectResult(requests[r], reply)
                               ELSE adminResult(requests[r].op, reply)]]
    /\ lastEmit' = <<>>
    /\ UNCHANGED <<svcVars, sockVars, execVars, now, calls, namespace, hovers>>
    /\ Deliver

\* the caller of operation r takes what it returned
ClientTake(r) ==
    /\ requests[r].pc = "done"
    /\ requests' = [requests EXCEPT ![r] = IdleRequest]
    /\ lastEmit' = <<>>
    /\ UNCHANGED <<svcVars, sockVars, execVars, ic, now, calls, namespace, hovers>>
    /\ Deliver

\* InspectionClient alone, driven through its public operations
NextClient ==
    \/ CreateClient
    \/ ClientTick
    \/ \E r \in ReqIds, op \in ClientOps, id \in InspectionIds : ClientCall(r, op, id)
    \/ \E r \in ReqIds, reply \in HealthReplies : ClientHealthReply(r, reply)
    \/ \E r \in ReqIds, reply \in AllHttpReplies : ClientHttpReply(r, reply)
    \/ \E r \in ReqIds : ClientTake(r)

SpecClient == Init /\ [][NextClient]_vars

----------------------------------------------------------------------------
(* PYTHON_TEMPLATES, run in the kernel's namespace *)

\* the names the user's own cells bind; the expression inspected is one of them
UserNames == {"df", "arr", "s", "x"}

\* the branches of estimateSize on typeName, and copyStrategy.mode
SizeVariants == {"DataFrame", "ndarray", "Series", "generic"}
CopyModes == {"shallow", "deep", "pickle"}

SnippetOutcome(ns, error) == [namespace |-> ns, error |-> error]

\* the first `completed` assignments of a try body have bound their targets
bindTargets(ns, targets, completed) ==
    ns \cup {targets[i] : i \in 1..completed}

\* `except ... as __e__:` assigns __result__; Python unbinds __e__ when the
\* clause ends
exceptClause(ns) == (ns \cup {"__result__"}) \ {"__e__"}

\* `del a, b, ...`: the targets are unbound from the left, and the first one
\* that is not bound raises NameError
RECURSIVE delStatement(_, _)
delStatement(ns, targets) ==
    IF targets = <<>> THEN SnippetOutcome(ns, "")
    ELSE IF Head(targets) \notin ns THEN SnippetOutcome(ns, "NameError")
    ELSE delStatement(ns \ {Head(targets)}, Tail(targets))

\* `for __var__ in [...]`: each turn binds __var__ and unbinds the name it
\* holds if that is bound
RECURSIVE cleanupLoop(_, _)
cleanupLoop(ns, names) ==
    IF names = <<>> THEN ns
    ELSE cleanupLoop((ns \cup {"__var__"}) \ {Head(names)}, Tail(names))

\* the validateType snippet; the expression raises NameError when unbound
validateType(ns, expression) ==
    LET imported == ns \cup {"__json__"}
        targets == <<"__obj__", "__exists__", "__runtime_type__", "__result__">>
        body == IF expression \in ns THEN bindTargets(imported, targets, 4)
                ELSE exceptClause(imported)
        cleaned == cleanupLoop(body, <<"__obj__", "__exists__", "__runtime_type__",
                                       "__e__", "__json__">>)
    IN delStatement(cleaned, <<"__result__">>)

\* the estimateSize snippet; `completed` statements of its try body run
\* before one raises (4: none raises)
estimateSize(ns, expression, variant, completed) ==
    LET imported == ns \cup (IF variant = "generic" THEN {"__json__", "__sys__"}
                             ELSE {"__json__"})
        targets == <<"__obj__", "__size_bytes__", "__size_mb__", "__result__">>
        ran == IF expression \in ns THEN completed ELSE 0
        body == IF ran = 4 THEN bindTargets(imported, targets, 4)
                ELSE exceptClause(bindTargets(imported, targets, ran))
    IN delStatement(body, <<"__result__", "__obj__", "__size_bytes__", "__size_mb__">>)

\* the serialize snippet; the copy code of the modes shallow and deep starts
\* in column 0 inside the try block, so the snippet does not compile and
\* nothing of it runs
serialize(ns, expression, mode, completed) ==
    IF mode \in {"shallow", "deep"} THEN SnippetOutcome(ns, "SyntaxError")
    ELSE
    LET imported == ns \cup {"__json__", "__pickle__", "__base64__"}
        targets == <<"__obj__", "__obj_copy__", "__pickled__", "__encoded__", "__result__">>
        ran == IF expression \in ns THEN completed ELSE 0
        body == IF ran = 5 THEN bindTargets(imported, targets, 5)
                ELSE exceptClause(bindTargets(imported, targets, ran))
    IN SnippetOutcome(
           cleanupLoop(body, <<"__obj__", "__obj_copy__", "__pickled__", "__encoded__",
                               "__result__", "__copy__", "__pickle__", "__base64__",
                               "__json__">>),
           "")

\* a cell of the user binds a name
UserAssign(n) ==
    /\ n \notin namespace
    /\ namespace' = namespace \cup {n}
    /\ lastEmit' = <<>>
    /\ UNCHANGED <<svcVars, sockVars, execVars, ic, now, calls, requests, hovers>>
    /\ Deliver

\* a cell of the user unbinds a name
UserDel(n) ==
    /\ n \in namespace
    /\ namespace' = namespace \ {n}
    /\ lastEmit' = <<>>
    /\ UNCHANGED <<svcVars, sockVars, execVars, ic, now, calls, requests, hovers>>
    /\ Deliver

RunValidateType(expression) ==
    /\ namespace' = validateType(namespace, expression).namespace
    /\ lastEmit' = <<>>
    /\ UNCHANGED <<svcVars, sockVars, execVars, ic, now, calls, requests, hovers>>
    /\ Deliver

RunEstimateSize(expression, variant, completed) ==
    /\ namespace' = estimateSize(namespace, expression, variant, completed).namespace
    /\ lastEmit' = <<>>
    /\ UNCHANGED <<svcVars, sockVars, execVars, ic, now, calls, requests, hovers>>
    /\ Deliver

RunSerialize(expression, mode, completed) ==
    /\ namespace' = serialize(namespace, expression, mode, completed).namespace
    /\ lastEmit' = <<>>
    /\ UNCHANGED <<svcVars, sockVars, execVars, ic, now, calls, requests, hovers>>
    /\ Deliver

RunSnippet ==
    \/ \E e \in UserNames : RunValidateType(e)
    \/ \E e \in UserNames, v \in SizeVariants, k \in 1..4 : RunEstimateSize(e, v, k)
    \/ \E e \in UserNames, m \in CopyModes, k \in {2, 5} : RunSerialize(e, m, k)

\* the kernel's namespace alone, under the user's cells and the snippets
NextSnippets ==
    \/ \E n \in UserNames : UserAssign(n)
    \/ \E n \in UserNames : UserDel(n)
    \/ RunSnippet

SpecSnippets == Init /\ [][NextSnippets]_vars

\* an editor asks for the hover of a position
GetHover(c, input) ==
    /\ ~MicrotaskPending
    /\ calls[c].pc = "idle"
    /\ \A d \in CallIds : d < c => calls[d].pc # "idle"
    /\ getHover(c, input)
    /\ lastEmit' = <<>>
    /\ UNCHANGED <<svcVars, sockVars, ic, now, requests, namespace>>
    /\ Deliver

\* inspectForHover of getHover c has settled: a getHover that still waits goes
\* on with the outcome, one whose race the timer settled never sees it
HoverTake(c) ==
    /\ Returned(c)
    /\ hovers' = [hovers EXCEPT ![c] =
                    IF @.state = "waiting" THEN afterRace(@, calls[c].outcome) ELSE @]
    /\ calls' = [calls EXCEPT ![c] = [IdleCall EXCEPT !.pc = "returned"]]
    /\ lastEmit' = <<>>
    /\ UNCHANGED <<svcVars, sockVars, execVars, ic, now, requests, namespace>>
    /\ Deliver

\* the timer of _createTimeoutPromise fires: a race that is still open rejects
\* and getHover returns the static hover from its catch block; inspectForHover
\* is not told
RaceTimeout(c) ==
    /\ \A d \in CallIds : ~Ready(d) /\ ~Returned(d)
    /\ \A id \in DOMAIN executions : ~Spent(id)
    /\ hovers[c].timer = "armed"
    /\ hovers' = [hovers EXCEPT ![c] =
                    IF @.state = "waiting"
                    THEN [hoverReturns(@, "timeout", @.input.staticHover)
                             EXCEPT !.timer = "fired", !.opsAtTimeout = calls[c].ops]
                    ELSE [@ EXCEPT !.timer = "fired"]]
    /\ lastEmit' = <<>>
    /\ UNCHANGED <<svcVars, sockVars, execVars, ic, now, calls, requests, namespace>>
    /\ Deliver

\* the deadline timer of an execution fires after the last call has ended
TimeoutAfterCalls(id) ==
    /\ \A c \in CallIds : calls[c].pc = "returned"
    /\ \A i \in DOMAIN executions : ~Spent(i)
    /\ id \in DOMAIN executions
    /\ executions[id].timer = "armed"
    /\ timeoutCallback(id)
    /\ lastEmit' = <<>>
    /\ UNCHANGED <<svcVars, sockVars, nextMsgId, kernelQueue, ic, now, calls>>
    /\ UNCHANGED otherVars
    /\ Deliver

\* the hover provider over the service: hovers asked while the service starts,
\* runs and loses its kernel
NextHover ==
    \/ \E file \in FileStates : Initialize(file)
    \/ \E reply \in HealthReplies, fileOk \in BOOLEAN, zmq \in PlainConnectInputs :
          InitializeResume(reply, fileOk, zmq)
    \/ DisconnectKernel
    \/ \E id \in MsgIds : Timeout(id)
    \/ \E id \in MsgIds : TimeoutAfterCalls(id)
    \/ \E mtype \in MessageTypes : IopubMessage(mtype)
    \/ Tick
    \/ \E c \in CallIds, input \in HoverInputs : GetHover(c, input)
    \/ \E c \in CallIds : RaceTimeout(c)
    \/ \E c \in CallIds, reply \in HealthReplies : HealthReply(c, reply)
    \/ \E c \in CallIds, reply \in InspectReplies : InspectReply(c, reply)
    \/ \E c \in CallIds : Resume(c)
    \/ \E c \in CallIds : HoverTake(c)
    \/ Collect

SpecHover == Init /\ [][NextHover]_vars

\* the event loop runs every queued continuation and every timer that is due,
\* and a request to the gateway ends, by its reply or by its own timer
FairHover ==
    /\ \A id \in MsgIds : WF_vars(Timeout(id)) /\ WF_vars(TimeoutAfterCalls(id))
    /\ \A c \in CallIds :
          /\ WF_vars(Resume(c))
          /\ WF_vars(HoverTake(c))
          /\ WF_vars(\E reply \in HealthReplies : HealthReply(c, reply))
          /\ WF_vars(\E reply \in InspectReplies : InspectReply(c, reply))
    /\ WF_vars(Collect)

SpecHoverFair == SpecHover /\ FairHover

\* the next hover request: a new provider is created for it.  Requests follow
\* one another until one of them has reached the kernel.
NextHoverRequest(c) ==
    /\ calls[c].pc = "returned"
    /\ hovers[c].timer # "armed"
    /\ nextMsgId = 1
    /\ \A id \in DOMAIN executions : ~Spent(id)
    /\ calls' = [calls EXCEPT ![c] = IdleCall]
    /\ hovers' = [hovers EXCEPT ![c] = IdleHover]
    /\ lastEmit' = <<>>
    /\ UNCHANGED <<svcVars, sockVars, execVars, ic, now, requests, namespace>>
    /\ Deliver

\* a hover over a name of a configured type, with the default options
ConfiguredHover == DefaultInput(StaticHover, DataFrameT)

\* hover after hover on a service that was initialized once and keeps its
\* kernel; from the end of initialize() on the inspection server is healthy
NextRecovery ==
    \/ \E file \in FileStates : Initialize(file)
    \/ \E reply \in HealthReplies, fileOk \in BOOLEAN, zmq \in PlainConnectInputs :
          InitializeResume(reply, fileOk, zmq)
    \/ \E id \in MsgIds : Timeout(id)
    \/ \E id \in MsgIds : TimeoutAfterCalls(id)
    \/ \E mtype \in MessageTypes : IopubMessage(mtype)
    \/ Tick
    \/ \E c \in CallIds, input \in HoverInputs : GetHover(c, input)
    \/ \E c \in CallIds : RaceTimeout(c)
    \/ \E c \in CallIds : HealthReply(c, "ok")
    \/ \E c \in CallIds, reply \in InspectReplies : InspectReply(c, reply)
    \/ \E c \in CallIds : Resume(c)
    \/ \E c \in CallIds : HoverTake(c)
    \/ \E c \in CallIds : NextHoverRequest(c)
    \/ Collect

SpecRecovery == Init /\ [][NextRecovery]_vars

\* the event loop runs what is queued, requests to the gateway end, and the
\* user keeps hovering, over a name of a configured type again and again
FairRecovery ==
    /\ FairHover
    /\ \A c \in CallIds :
          /\ WF_vars(RaceTimeout(c))
          /\ WF_vars(NextHoverRequest(c))
          /\ SF_vars(GetHover(c, ConfiguredHover))

SpecRecoveryFair == SpecRecovery /\ FairRecovery

\* the files the watched lspContext.json goes through: the first configuration,
\* one with another kernel and port, and a file that cannot be read
ReloadFiles ==
    {[kind |-> "valid", cfg |-> c] : c \in {ConfigA, ConfigC}}
        \cup {[kind |-> "unparsable", cfg |-> NoConfig]}

\* the service while its configuration file is edited and executions are
\* pending on the kernel
NextReload ==
    \/ \E file \in ReloadFiles : Initialize(file)
    \/ \E reply \in HealthReplies, fileOk \in BOOLEAN, zmq \in PlainConnectInputs :
          InitializeResume(reply, fileOk, zmq)
    \/ \E file \in ReloadFiles : ConfigFileChange(file)
    \/ DisconnectKernel
    \/ \E op \in KernelOps, sendOk \in BOOLEAN : Execute(op, sendOk)
    \/ \E id \in MsgIds : Timeout(id)
    \/ \E mtype \in MessageTypes : IopubMessage(mtype)
    \/ KernelUnheard
    \/ Collect

SpecReload == Init /\ [][NextReload]_vars

\* addEventListener: Set.add leaves a listener that is registered in its place
AddEventListener(l) ==
    /\ ~MicrotaskPending
    /\ listeners' = IF \E i \in 1..Len(listeners) : listeners[i] = l
                    THEN listeners ELSE Append(listeners, l)
    /\ heard' = NothingHeard
    /\ lastEmit' = <<>>
    /\ UNCHANGED <<svcVars, sockVars, execVars, ic, now, calls>>
    /\ UNCHANGED otherVars

\* removeEventListener
RemoveEventListener(l) ==
    /\ ~MicrotaskPending
    /\ listeners' = SelectSeq(listeners, LAMBDA x : x # l)
    /\ heard' = NothingHeard
    /\ lastEmit' = <<>>
    /\ UNCHANGED <<svcVars, sockVars, execVars, ic, now, calls>>
    /\ UNCHANGED otherVars

\* KernelClient with listeners registered on it
NextListeners ==
    \/ \E l \in ListenerNames : AddEventListener(l)
    \/ \E l \in ListenerNames : RemoveEventListener(l)
    \/ \E fileOk \in BOOLEAN, zmq \in PlainConnectInputs : ConnectToKernel(fileOk, zmq)
    \/ DisconnectKernel
    \/ \E sendOk \in BOOLEAN : Execute("validateType", sendOk)
    \/ \E id \in MsgIds : Timeout(id)
    \/ \E mtype \in MessageTypes : IopubMessage(mtype)
    \/ KernelUnheard
    \/ Collect

SpecListeners == Init /\ [][NextListeners]_vars

\* the names a file stores policies under, each with a policy of its own
SeriesLongT == <<"pandas", "core", "series", "Series">>
NdarrayT == <<"numpy", "ndarray">>
StoredNames == {DataFrameT, DataFrameLongT, NdarrayT}
PolicyOf(name) ==
    CASE name = DataFrameT -> Policy(50, 2000, "shallow")
      [] name = DataFrameLongT -> Policy(200, 5000, "deep")
      [] OTHER -> Policy(10, 1000, "pickle")
\* the valid files: inspection on or off, and policies under any of the names
LookupConfigs ==
    {[ConfigA EXCEPT !.enabled = e, !.typeInspections = [n \in names |-> PolicyOf(n)]] :
        e \in BOOLEAN, names \in SUBSET StoredNames}
\* the type names looked up: of one, two, three and four segments
LookupTypes ==
    StoredNames \cup {IntT, SeriesLongT, <<"DataFrame">>, <<"pandas", "core", "DataFrame">>,
                      <<"core", "frame", "DataFrame">>, <<"numpy", "core", "multiarray", "ndarray">>}

\* ConfigLoader.load() reads a valid file
LoadConfig(cfg) ==
    /\ ~MicrotaskPending
    /\ config' = load(config, [kind |-> "valid", cfg |-> cfg])
    /\ lastEmit' = <<>>
    /\ UNCHANGED <<isInitialized, watching, initPc, sockVars, execVars, ic, now, calls>>
    /\ UNCHANGED otherVars
    /\ Deliver

\* the policy lookup alone: files are loaded and types asked for, with no kernel
NextLookup ==
    \/ \E cfg \in LookupConfigs : LoadConfig(cfg)
    \/ \E c \in CallIds, staticType \in LookupTypes : StartCall(c, staticType)
    \/ \E c \in CallIds : TakeResult(c)

SpecLookup == Init /\ [][NextLookup]_vars

----------------------------------------------------------------------------
(* Properties of KernelClient, under SpecKernel *)

Settled(e) == e.promise.state # "pending"
Rejection(err) == [state |-> "rejected", result |-> <<>>, error |-> err]

C3_DisconnectRejectsAll ==
    [][DisconnectKernel =>
          /\ \A id \in DOMAIN pendingExecutions :
                /\ ~Settled(executions[id])
                      => executions'[id].promise = Rejection("Disconnected")
                /\ executions'[id].timer = "cleared"
          /\ \A id \in DOMAIN executions' : executions'[id].timer # "armed"
          /\ pendingExecutions' = EmptyMap
          /\ ~shellSocket'
          /\ ~iopubSocket'
          /\ kstate' = "Disconnected"]_vars

\* two executions were rejected by one disconnect()
C3_Witness ==
    /\ kstate = "Disconnected"
    /\ pendingExecutions = EmptyMap
    /\ \E i, j \in DOMAIN executions :
          /\ i # j
          /\ executions[i].promise = Rejection("Disconnected")
          /\ executions[j].promise = Rejection("Disconnected")
          /\ executions[i].timer = "cleared" /\ executions[j].timer = "cleared"

TimedOut(id) == id \in DOMAIN executions /\ executions[id].timer = "fired"

\* C4: the deadline of a pending execution rejects it with a timeout error and
\* removes its entry in the same step; a message of any type for an id whose
\* deadline has fired changes no entry, settles nothing and emits no event.
C4_StaleAfterTimeout ==
    [][/\ \A id \in DOMAIN executions :
             (Timeout(id) /\ ~Settled(executions[id]))
                => /\ executions'[id].promise = Rejection("Timeout")
                   /\ id \in DOMAIN pendingExecutions
                   /\ id \notin DOMAIN pendingExecutions'
       /\ \A mtype \in MessageTypes :
             (IopubMessage(mtype) /\ TimedOut(Head(kernelQueue)))
                => /\ pendingExecutions' = pendingExecutions
                   /\ executions' = executions
                   /\ lastEmit' = <<>>]_vars

\* the kernel finished a request after its deadline had fired: the idle
\* message was delivered to the open subscriber socket
C4_Witness ==
    \E id \in DOMAIN executions :
        /\ executions[id].sent
        /\ executions[id].promise = Rejection("Timeout")
        /\ TimedOut(id)
        /\ id \notin DOMAIN pendingExecutions
        /\ \A i \in 1..Len(kernelQueue) : kernelQueue[i] # id
        /\ iopubSocket

\* C5: every entry of the pending map belongs to an execution whose deadline
\* timer is still armed: no entry outlives its deadline, so the map is empty
\* once no deadline is outstanding.
C5_NoEntryPastDeadline ==
    /\ \A id \in DOMAIN pendingExecutions :
          id \in DOMAIN executions /\ executions[id].timer = "armed"
    /\ \A id \in DOMAIN executions : TimedOut(id) => id \notin DOMAIN pendingExecutions
    /\ (\A id \in DOMAIN executions : executions[id].timer # "armed")
          => pendingExecutions = EmptyMap

\* two executions got no reply at all and both deadlines have passed
C5_Witness ==
    /\ pendingExecutions = EmptyMap
    /\ \E i, j \in DOMAIN executions :
          /\ i # j
          /\ TimedOut(i) /\ TimedOut(j)
          /\ executions[i].sent /\ executions[j].sent
          /\ kernelQueue = <<i, j>>

----------------------------------------------------------------------------
(* Properties of inspectForHover, under Spec *)

FailureReasons ==
    {"ConfigNotFound", "TypeNotConfigured", "KernelNotConnected", "ServerUnavailable",
     "ObjectNotFound", "SizeExceeded", "SerializationFailed", "InspectionTimeout",
     "InspectionError"}

InFlight(c) == calls[c].pc \notin {"idle", "done", "returned"}

\* C1: a call never ends rejected: when it ends, its promise is resolved with
\* one result, a success or a failure with one of the nine reasons; and a call
\* that has not ended waits for something that comes (a value at hand, an HTTP
\* completion, or an execution that is settled or has its deadline armed).
C1_AlwaysOneResult ==
    \A c \in CallIds :
        /\ calls[c].outcome.state # "rejected"
        /\ Returned(c) =>
              /\ calls[c].outcome.state = "resolved"
              /\ IF calls[c].outcome.success
                 THEN calls[c].outcome.failureReason = ""
                 ELSE calls[c].outcome.failureReason \in FailureReasons
        /\ InFlight(c) =>
              /\ calls[c].outcome.state = "none"
              /\ \/ calls[c].await.kind \in {"value", "http"}
                 \/ /\ calls[c].await.kind = "kernel"
                    /\ calls[c].await.id \in DOMAIN executions
                    /\ \/ Settled(executions[calls[c].await.id])
                       \/ executions[calls[c].await.id].timer = "armed"

\* a stage threw inside the call (the kernel printed `null`, or the gateway
\* answered `null`) and the call ended with a result all the same
C1_Witness ==
    \E c \in CallIds :
        /\ Returned(c)
        /\ calls[c].outcome.state = "resolved"
        /\ calls[c].outcome.failureReason = "InspectionError"
        /\ calls[c].outcome.notes = <<"TypeError">>

\* the policy's limit, read from the configuration the call started with
LimitOf(c) == getTypeConfig(calls[c].atCall.config, calls[c].staticType).maxSizeMb

OverLimit(c) ==
    /\ calls[c].sizeResult.kind = "obj"
    /\ calls[c].sizeResult.success
    /\ calls[c].sizeResult.sizeMb > LimitOf(c)

\* C6: when estimateSize succeeded with a size over the policy's maxSizeMb, the
\* call has ended with SizeExceeded, and it has issued neither serializeObject
\* nor inspect() nor POST /inspect.
C6_SizeExceededStops ==
    \A c \in CallIds :
        OverLimit(c) =>
            /\ Returned(c)
            /\ ~calls[c].outcome.success
            /\ calls[c].outcome.failureReason = "SizeExceeded"
            /\ calls[c].ops \cap {"serializeObject", "inspect", "POST /inspect"} = {}

\* an object of 120 MB against a limit of 50 MB
C6_Witness ==
    \E c \in CallIds :
        /\ OverLimit(c)
        /\ calls[c].sizeResult.sizeMb = 120
        /\ LimitOf(c) = 50
        /\ "estimateSize" \in calls[c].ops
        /\ calls[c].outcome.failureReason = "SizeExceeded"

\* C7: when the pre-flight ensureAvailable() returned false (a failed probe, or
\* the remembered result of one), the call has ended with ServerUnavailable
\* and has issued nothing but that probe: no kernel operation, no /inspect.
C7_ProbeFailureStops ==
    \A c \in CallIds :
        calls[c].available = Flag(FALSE) =>
            /\ Returned(c)
            /\ ~calls[c].outcome.success
            /\ calls[c].outcome.failureReason = "ServerUnavailable"
            /\ calls[c].ops \subseteq {"GET /health"}

\* a call with inspection enabled, a policy and a connected kernel sent the
\* probe, and the probe failed
C7_Witness ==
    \E c \in CallIds :
        /\ calls[c].available = Flag(FALSE)
        /\ calls[c].ops = {"GET /health"}
        /\ isEnabled(calls[c].atCall.config)
        /\ calls[c].typeConfig.def
        /\ calls[c].atCall.connected
        /\ calls[c].outcome.failureReason = "ServerUnavailable"

\* the configuration has a policy for type t: under its name, or under the
\* name made of its first and last segment
HasPolicy(cfg, t) ==
    /\ cfg.def
    /\ \/ t \in DOMAIN cfg.typeInspections
       \/ Len(t) > 2 /\ <<t[1], t[Len(t)]>> \in DOMAIN cfg.typeInspections

PreflightReasons ==
    {"ConfigNotFound", "TypeNotConfigured", "KernelNotConnected", "ServerUnavailable",
     "ObjectNotFound"}

\* the reason the first failing pre-flight check gives, "" when all pass
FirstFailing(c) ==
    LET cfg == calls[c].atCall.config IN
    IF ~isEnabled(cfg) THEN "ConfigNotFound"
    ELSE IF ~HasPolicy(cfg, calls[c].staticType) THEN "TypeNotConfigured"
    ELSE IF ~calls[c].atCall.connected THEN "KernelNotConnected"
    ELSE IF ~calls[c].atCall.client \/ calls[c].available # Flag(TRUE) THEN "ServerUnavailable"
    ELSE IF calls[c].typeValidation.kind = "obj" /\ ~calls[c].typeValidation.exists
         THEN "ObjectNotFound"
    ELSE ""

C10_ResultIsGatewayText ==
    \A c \in CallIds :
        (Returned(c) /\ calls[c].outcome.success) =>
            /\ calls[c].gatewayReply.how = "body"
            /\ calls[c].gatewayReply.body.kind = "obj"
            /\ calls[c].gatewayReply.body.success
            /\ calls[c].outcome.dynamicResult = calls[c].gatewayReply.body.result

\* a success that carries the gateway's text
C10_Witness ==
    \E c \in CallIds :
        /\ Returned(c)
        /\ calls[c].outcome.success
        /\ calls[c].gatewayReply.body = Envelope(TRUE, "Shape: 100x3", NoResult)
        /\ calls[c].outcome.dynamicResult = "Shape: 100x3"

Range(seq) == {seq[i] : i \in 1..Len(seq)}

LaterStageReasons ==
    {"SizeExceeded", "SerializationFailed", "InspectionTimeout", "InspectionError"}

\* validateType found the binding and reported a runtime type
ReportedType(c) ==
    /\ calls[c].typeValidation.kind = "obj"
    /\ calls[c].typeValidation.exists
    /\ calls[c].typeValidation.runtimeType # NoType

\* two names of one type: equal, or the public and the defining-module name
\* of the pandas DataFrame
SameType(x, y) == x = y \/ {x, y} \subseteq {DataFrameT, DataFrameLongT}

\* what follows a reported type mismatch: the note, the size estimation, no
\* failure other than a later stage's, and a success that carries the note
MismatchIsNoted(c) ==
    /\ "Type mismatch" \in Range(calls[c].notes)
    /\ "estimateSize" \in calls[c].ops
    /\ Returned(c) =>
          IF calls[c].outcome.success
          THEN "Type mismatch" \in Range(calls[c].outcome.notes)
          ELSE calls[c].outcome.failureReason \in LaterStageReasons

C12_OutcomeWellFormed ==
    \A c \in CallIds :
        Returned(c) =>
            /\ calls[c].outcome.success \in BOOLEAN
            /\ calls[c].outcome.success => calls[c].outcome.failureReason = ""
            /\ ~calls[c].outcome.success =>
                  /\ calls[c].outcome.failureReason \in FailureReasons
                  /\ calls[c].outcome.failureReason # "TypeMismatch"
                  /\ calls[c].outcome.dynamicResult = NoResult
            /\ calls[c].outcome.staticType = calls[c].staticType
            /\ calls[c].outcome.staticType \in StaticTypes

\* a call that saw a type mismatch and then failed in a later stage
C12_Witness ==
    \E c \in CallIds :
        /\ Returned(c)
        /\ ReportedType(c)
        /\ calls[c].typeValidation.runtimeType = IntT
        /\ ~calls[c].outcome.success
        /\ calls[c].outcome.failureReason = "SerializationFailed"
        /\ calls[c].outcome.staticType = DataFrameT

\* POST /inspect of call c ended, and the remote inspection stage failed
RemoteStageFailed(c) ==
    /\ Returned(c)
    /\ \/ calls[c].gatewayReply.how = "reject"
       \/ /\ calls[c].gatewayReply.how = "body"
          /\ calls[c].gatewayReply.body.kind = "obj"
          /\ ~calls[c].gatewayReply.body.success

\* the failure is a timeout: the sandbox reported one, or the request timer of
\* the gateway client fired
FailedByTimeout(c) ==
    \/ /\ calls[c].gatewayReply.how = "body"
       /\ calls[c].gatewayReply.body.error = "Inspection timeout"
    \/ /\ calls[c].gatewayReply.how = "reject"
       /\ calls[c].gatewayReply.body.error = "Request timed out after 3000ms"

\* C13: a failure of the remote inspection stage gives InspectionTimeout when
\* it is a timeout (reported by the sandbox, or the client's own request
\* timer), and InspectionError otherwise.
C13_TimeoutsAreInspectionTimeout ==
    \A c \in CallIds :
        RemoteStageFailed(c) =>
            calls[c].outcome.failureReason =
                (IF FailedByTimeout(c) THEN "InspectionTimeout" ELSE "InspectionError")

----------------------------------------------------------------------------
(* Properties of the connection state, under SpecKernel *)

\* the states _setState walks through during a step, from the state before it
StateWalk ==
    LET changes == SelectSeq(lastEmit', LAMBDA e : e.type = "state_change")
    IN <<kstate>> \o [i \in 1..Len(changes) |-> changes[i].info]

SpecifiedTransitions ==
    {<<"Disconnected", "Connecting">>, <<"Connecting", "Connected">>,
     <<"Connecting", "Error">>, <<"Connected", "Disconnected">>, <<"Connected", "Error">>}

\* C18: every change of the connection state is one of the five transitions
\* Disconnected->Connecting, Connecting->Connected, Connecting->Error,
\* Connected->Disconnected, Connected->Error; and a connect() whose connection
\* file does not load ends in Error.
C18_OnlySpecifiedTransitions ==
    [][/\ \A i \in 1..(Len(StateWalk) - 1) :
             <<StateWalk[i], StateWalk[i + 1]>> \in SpecifiedTransitions
       /\ \A zmq \in ConnectInputs : ConnectToKernel(FALSE, zmq) => kstate' = "Error"]_vars

\* C19: a connect() whose connection file loads and whose transport set-up
\* throws leaves the client Connected, and every execute() in that mode leaves
\* the pending map, the timers and the kernel's queue as they were.
C19_ReducedModeSendsNothing ==
    [][/\ \A zmq \in ConnectInputs \ {"ok"} :
             ConnectToKernel(TRUE, zmq) => kstate' = "Connected" /\ transport' = "unavailable"
       /\ \A op \in KernelOps, sendOk \in BOOLEAN :
             (Execute(op, sendOk) /\ isConnected /\ transport = "unavailable")
                => UNCHANGED execVars]_vars

----------------------------------------------------------------------------
(* Properties of InspectionClient, under SpecClient *)

Started(r) == requests[r].pc # "idle"
Finished(r) == requests[r].pc = "done"

\* the cache was stale when operation r was invoked: more than 30 s since the
\* last completed probe
StaleAtCall(r) == requests[r].elapsed > 30000

\* C14: inspect() probes exactly when the cache is stale; when ensureAvailable
\* gave false it has returned a failure envelope at once and has sent no
\* POST /inspect, and when it gave true it has sent one.
C14_UnavailableSendsNothing ==
    \A r \in ReqIds :
        (Started(r) /\ requests[r].op = "inspect") =>
            /\ ("GET /health" \in requests[r].ops) <=> StaleAtCall(r)
            /\ ("POST /inspect" \in requests[r].ops) <=> (requests[r].available = Flag(TRUE))
            /\ requests[r].available = Flag(FALSE) =>
                  /\ Finished(r)
                  /\ requests[r].result.state = "resolved"
                  /\ requests[r].result.value.kind = "obj"
                  /\ ~requests[r].result.value.success

\* an inspect() found the cache fresh and the flag false
C14_Witness ==
    \E r \in ReqIds :
        /\ requests[r].op = "inspect"
        /\ Finished(r)
        /\ ~StaleAtCall(r)
        /\ requests[r].available = Flag(FALSE)
        /\ requests[r].ops = {}
        /\ ~requests[r].result.value.success

\* inspect() built the envelope it returned: the gateway was unavailable, or
\* _request rejected
Synthesized(r) ==
    \/ requests[r].available = Flag(FALSE)
    \/ requests[r].reply.how = "reject"

\* C15: inspect() never rejects, and every envelope it builds itself, for
\* unavailability or for a rejection of _request, has success = false and the
\* inspectionId of its own request, whatever else is in flight.
C15_FailureEnvelopeKeepsId ==
    \A r \in ReqIds :
        (Finished(r) /\ requests[r].op = "inspect") =>
            /\ requests[r].result.state = "resolved"
            /\ Synthesized(r) =>
                  /\ requests[r].result.value.kind = "obj"
                  /\ ~requests[r].result.value.success
                  /\ requests[r].result.value.inspectionId = requests[r].inspectionId
                  /\ requests[r].result.value.inspectionId \in InspectionIds

\* two inspect() calls with different ids in flight: the second has ended with
\* a transport failure before the first
C15_Witness ==
    /\ requests[1].op = "inspect" /\ requests[1].pc = "http"
    /\ requests[2].op = "inspect" /\ Finished(2)
    /\ requests[1].inspectionId # requests[2].inspectionId
    /\ requests[2].reply.how = "reject"
    /\ requests[2].result.value.inspectionId = requests[2].inspectionId

\* C16: ensureAvailable() sends a probe exactly when more than 30 s have
\* passed since the last completed probe; otherwise it has returned the flag
\* as it was, with no request; and when a probe completes the flag is true
\* exactly when the answer was status ok.
C16_ProbeExactlyWhenStale ==
    \A r \in ReqIds :
        /\ (Started(r) /\ requests[r].op = "ensureAvailable") =>
              /\ ("GET /health" \in requests[r].ops) <=> StaleAtCall(r)
              /\ ~StaleAtCall(r) =>
                    /\ Finished(r)
                    /\ requests[r].ops = {}
                    /\ requests[r].result = Resolved(Flag(requests[r].cached))
        /\ requests[r].probeReply # "" =>
              /\ requests[r].flagAfter = (requests[r].probeReply = "ok")
              /\ requests[r].op \in {"ensureAvailable", "checkHealth"}
                    => requests[r].result = Resolved(Flag(requests[r].probeReply = "ok"))

\* an ensureAvailable() after an earlier probe, inside the interval: the flag
\* of that probe comes back and nothing is sent
C16_Witness ==
    \E r \in ReqIds :
        /\ requests[r].op = "ensureAvailable"
        /\ Finished(r)
        /\ ic.lastHealthCheck > 0
        /\ ~StaleAtCall(r)
        /\ requests[r].ops = {}
        /\ requests[r].result = Resolved(Flag(TRUE))

AdminOps == {"registerScript", "getRegisteredTypes", "shutdown"}

\* C17: the administrative operations never reject; when their request is
\* rejected registerScript gives false, getRegisteredTypes the empty list,
\* shutdown returns; and right after a shutdown(), answered or not, the flag
\* is false.
C17_AdminNeverRaises ==
    \A r \in ReqIds :
        (Finished(r) /\ requests[r].op \in AdminOps) =>
            /\ requests[r].result.state = "resolved"
            /\ requests[r].reply.how = "reject" =>
                  requests[r].result =
                      (CASE requests[r].op = "registerScript" -> Resolved(Flag(FALSE))
                         [] requests[r].op = "getRegisteredTypes" -> Resolved(List(<<>>))
                         [] requests[r].op = "shutdown" -> Resolved(Void))
            /\ requests[r].op = "shutdown" => ~requests[r].flagAfter /\ ~ic.isServerAvailable

\* a shutdown() whose request was refused while the flag was true
C17_Witness ==
    \E r \in ReqIds :
        /\ requests[r].op = "shutdown"
        /\ Finished(r)
        /\ requests[r].cached
        /\ requests[r].reply.how = "reject"
        /\ requests[r].reply.error = "connect ECONNREFUSED"
        /\ ~ic.isServerAvailable

----------------------------------------------------------------------------
(* Properties of the kernel's namespace, under SpecSnippets *)

\* C20: running a validate, estimate-size or serialize snippet, whether its
\* expression resolves or raises, leaves the namespace as it was before:
\* every name the snippet bound is unbound again.
C20_SnippetsLeaveNamespace == [][RunSnippet => namespace' = namespace]_vars

----------------------------------------------------------------------------
(* Properties of the inbound messages, under SpecWire *)

WireKeys == {SessionKey} \cup KeysOfOthers
WireKinds == {"stdout", "stderr", "error", "idle"}

\* the handler left every pending execution and the listeners alone
Dropped == UNCHANGED <<pendingExecutions, executions>> /\ lastEmit' = <<>>

\* C21: a message whose signature frame is not the HMAC of its four JSON
\* segments under the session's key is rejected: it adds no output to a
\* pending execution, settles none, and no event is emitted.
C21_BadSignatureIsRejected ==
    [][\A f \in WireFramings, key \in WireKeys, parent \in WireParents, mtype \in WireKinds :
          (/\ ~SignatureValid(InboundFrames(f[1], key, parent, mtype, WireText(mtype), f[2]))
           /\ WireMessage(f[1], key, parent, mtype, f[2]))
              => Dropped]_vars

\* C22: the delimiter is found by scanning: a message of k >= 0 routing
\* frames, the delimiter, the signature and the four segments is handled for
\* the execution its parent header names, whatever k is, and a message with no
\* delimiter or with too few frames after it changes nothing.
C22_DelimiterFoundByScanning ==
    [][\A f \in WireFramings, parent \in WireParents, mtype \in WireKinds :
          WireMessage(f[1], SessionKey, parent, mtype, f[2])
              => IF f[2] = "full"
                 THEN handleIopubMessage(parent, mtype, WireText(mtype))
                 ELSE Dropped]_vars

----------------------------------------------------------------------------
(* Properties of the stages of inspectForHover, under Spec *)

\* the executions of call c whose promise is pending
PendingOf(c) ==
    {id \in DOMAIN executions :
        executions[id].call = c /\ executions[id].promise.state = "pending"}

\* the HTTP requests of call c in flight
HttpInFlight(c) == IF calls[c].await.kind = "http" THEN 1 ELSE 0

PolicyAtCall(c) == getTypeConfig(calls[c].atCall.config, calls[c].staticType)

\* the size the kernel reported for call c is known and over `limit`
SizeOver(c, limit) ==
    /\ calls[c].sizeResult.kind = "obj"
    /\ calls[c].sizeResult.success
    /\ calls[c].sizeResult.sizeMb > limit

\* C25: a call uses one policy, the one read at its start, for all its
\* stages: whatever the configuration has been reloaded to meanwhile, the
\* policy the call holds is a whole policy of the configuration it started
\* under, and its size decision is the one that policy's limit gives.
C25_OnePolicyPerCall ==
    \A c \in CallIds :
        calls[c].pc \notin {"idle", "returned"} =>
            /\ calls[c].typeConfig = PolicyAtCall(c)
            /\ calls[c].typeConfig.def =>
                  /\ SizeOver(c, PolicyAtCall(c).maxSizeMb) =>
                        /\ "serializeObject" \notin calls[c].ops
                        /\ calls[c].pc = "done"
                        /\ calls[c].outcome.failureReason = "SizeExceeded"
                  /\ (calls[c].pc = "done" /\ calls[c].outcome.state = "resolved"
                         /\ calls[c].outcome.failureReason = "SizeExceeded")
                        => SizeOver(c, PolicyAtCall(c).maxSizeMb)

\* the configuration was reloaded during a call to one whose policy allows
\* the object, and the call has ended on the limit it started with
C25_Witness ==
    \E c \in CallIds :
        /\ calls[c].pc = "done"
        /\ config.def
        /\ config # calls[c].atCall.config
        /\ getTypeConfig(config, calls[c].staticType).def
        /\ getTypeConfig(config, calls[c].staticType) # calls[c].typeConfig
        /\ SizeOver(c, calls[c].typeConfig.maxSizeMb)
        /\ ~SizeOver(c, getTypeConfig(config, calls[c].staticType).maxSizeMb)
        /\ calls[c].outcome.failureReason = "SizeExceeded"

\* what call c recorded as the value of its derived operation `op`
ValueOf(c, op) ==
    CASE op = "validateType" -> calls[c].typeValidation
      [] op = "estimateSize" -> calls[c].sizeResult
      [] op = "serializeObject" -> calls[c].serialized

\* the object the claim names for a failure of `op` with message err
IsFailureObject(value, op, err) ==
    /\ value.kind = "obj"
    /\ value.error = err
    /\ op = "validateType" => ~value.exists
    /\ op = "estimateSize" => ~value.success /\ value.sizeMb = 0
    /\ op = "serializeObject" => ~value.success

\* execute() of a derived operation failed: its promise was rejected (send
\* failure, timeout, disconnect, error reply), or the last line of its output
\* is no JSON
ExecuteFailure(e) ==
    IF e.promise.state = "rejected" THEN e.promise.error
    ELSE IF e.promise.state = "resolved"
            /\ JsonParse(LastLine(e.promise.result), NoType).kind = "throw"
    THEN "SyntaxError"
    ELSE ""

\* C27: the derived kernel operations return a value whatever execute()
\* does: when it is refused for a missing connection, rejected by timeout,
\* disconnect or an error reply, or its last output line is no JSON, the
\* value is the failure object of the operation with the error's message.
C27_DerivedOperationsNeverReject ==
    \A c \in CallIds :
        /\ (calls[c].pc \in KernelOps /\ calls[c].await.kind = "value" /\ ~isConnected)
              => IsFailureObject(calls[c].await.res, calls[c].pc, "Not connected to kernel")
        /\ \A id \in DOMAIN executions :
              LET e == executions[id] IN
              (e.call = c /\ ExecuteFailure(e) # "" /\ ValueOf(c, e.op).kind # "none")
                  => IsFailureObject(ValueOf(c, e.op), e.op, ExecuteFailure(e))
        /\ calls[c].outcome.state # "rejected"

\* the size estimation of a call timed out and the call has its failure object
C27_Witness ==
    \E c \in CallIds, id \in DOMAIN executions :
        /\ executions[id].call = c
        /\ executions[id].op = "estimateSize"
        /\ executions[id].promise.state = "rejected"
        /\ executions[id].promise.error = "Timeout"
        /\ calls[c].sizeResult.kind = "obj"
        /\ ~calls[c].sizeResult.success
        /\ calls[c].sizeResult.sizeMb = 0
        /\ calls[c].sizeResult.error = "Timeout"

\* the timing entry of each stage
StageTiming ==
    [validateType |-> "typeValidationMs", estimateSize |-> "sizeCheckMs",
     serializeObject |-> "serializationMs", inspect |-> "inspectionMs"]

\* C28: every outcome carries a total elapsed time, and the duration of
\* exactly the stages that ran before it: a stage that was issued and
\* returned has its entry although a later stage failed or never ran, and a
\* stage that was not run has none.
C28_TimingOfStagesRun ==
    \A c \in CallIds :
        (calls[c].pc = "done" /\ calls[c].outcome.state = "resolved") =>
            /\ "totalMs" \in calls[c].outcome.timing
            /\ \A stage \in DOMAIN StageTiming :
                  (StageTiming[stage] \in calls[c].outcome.timing) <=> (stage \in calls[c].ops)
            /\ calls[c].outcome.failureReason = "SizeExceeded" =>
                  calls[c].outcome.timing = {"totalMs", "typeValidationMs", "sizeCheckMs"}

\* a call ended by the catch block after its validation and size check ran
C28_Witness ==
    \E c \in CallIds :
        /\ calls[c].pc = "done"
        /\ calls[c].outcome.failureReason = "InspectionError"
        /\ calls[c].serialized.kind = "null"
        /\ calls[c].outcome.timing =
              {"totalMs", "typeValidationMs", "sizeCheckMs", "serializationMs"}

\* C29: every advisory note recorded during the call (type mismatch, failed
\* size estimation) is among the notes of the outcome the call ends with,
\* be it a success or a failure of a later stage.
C29_NotesReachTheOutcome ==
    \A c \in CallIds :
        (/\ Returned(c)
         /\ calls[c].outcome.state = "resolved"
         /\ calls[c].outcome.success \/ calls[c].outcome.failureReason \in LaterStageReasons)
            => Range(calls[c].notes) \subseteq Range(calls[c].outcome.notes)


(***************************************************************************)
(* Properties of the idle message, under SpecKernel                        *)
(***************************************************************************)
RECURSIVE Concatenation(_)
\* the chunks joined with the empty separator: an empty chunk adds nothing
Concatenation(chunks) ==
    IF chunks = <<>> THEN <<>>
    ELSE (IF Head(chunks) = "" THEN <<>> ELSE <<Head(chunks)>>) \o Concatenation(Tail(chunks))

\* the idle message of the kernel for the pending request at the head of its queue
IdleForPending ==
    /\ IopubMessage("idle")
    /\ Head(kernelQueue) \in DOMAIN pendingExecutions

\* C30: a status-idle message for a pending execution resolves it exactly when
\* at least one chunk of output was accumulated; the value is the chunks
\* concatenated in the order they arrived, the deadline timer is cancelled and
\* the entry leaves the pending map.  With no chunk accumulated the execution
\* stays pending, in the map, with its timer armed.
C30_IdleResolvesOnlyWithOutput ==
    [][IdleForPending =>
          LET id == Head(kernelQueue)
              chunks == pendingExecutions[id]
          IN IF Len(chunks) > 0
             THEN /\ executions'[id].promise.state = "resolved"
                  /\ executions'[id].promise.result = Concatenation(chunks)
                  /\ executions'[id].timer = "cleared"
                  /\ id \notin DOMAIN pendingExecutions'
             ELSE /\ executions'[id].promise.state = "pending"
                  /\ executions'[id].timer = "armed"
                  /\ id \in DOMAIN pendingExecutions'
                  /\ pendingExecutions'[id] = <<>>]_vars

\* an execution resolved with its two chunks, next to one whose idle message
\* arrived before any output and that is still pending with its timer armed
C30_Witness ==
    /\ \E id \in DOMAIN executions :
          /\ executions[id].promise.state = "resolved"
          /\ Len(executions[id].promise.result) = 2
          /\ executions[id].timer = "cleared"
    /\ \E id \in DOMAIN pendingExecutions :
          /\ pendingExecutions[id] = <<>>
          /\ executions[id].promise.state = "pending"
          /\ executions[id].timer = "armed"
          /\ id \notin Range(kernelQueue)


(***************************************************************************)
(* Properties of the hover provider, under SpecHover                       *)
(***************************************************************************)
\* the hover's text has the runtime inspection section
HasRuntimeSection(hover) ==
    \E i \in 1..Len(hover.value) : hover.value[i] = Plain("**Runtime Inspection:**")

\* the hover's text starts with the whole text of the static hover
StartsWithStatic(hover, static) ==
    /\ Len(hover.value) >= Len(static.value)
    /\ SubSeq(hover.value, 1, Len(static.value)) = static.value

\* C26: getHover returns the static hover itself when no service was given,
\* when the service was not available or had no policy for the type, and when
\* its wait ended by the deadline or by an exception; a hover composed from a
\* failed outcome has the complete static content and no runtime result
\* section.
C26_FallsBackToStaticHover ==
    \A c \in CallIds :
        hovers[c].state = "done" =>
            LET h == hovers[c]
                static == h.input.staticHover
            IN /\ (~h.input.service \/ ~h.atCall.available \/ ~h.atCall.hasTypeConfig)
                      => h.result = static
               /\ h.waitEnded \in {"timeout", "raised"} => h.result = static
               /\ (h.waitEnded = "outcome" /\ ~h.runtimeResult.success)
                      => /\ StartsWithStatic(h.result, static)
                         /\ ~HasRuntimeSection(h.result)

\* a hover composed from an outcome that failed for the object's size: the
\* static text followed by the note of the failure
C26_Witness ==
    \E c \in CallIds :
        /\ hovers[c].state = "done"
        /\ hovers[c].waitEnded = "outcome"
        /\ hovers[c].runtimeResult.failureReason = "SizeExceeded"
        /\ hovers[c].input.staticHover = StaticHover
        /\ Len(hovers[c].result.value) > Len(StaticHover.value)


(***************************************************************************)
(* Properties of an abandoned wait, under SpecHoverFair                    *)
(***************************************************************************)
\* an execution of call c is still in the pending map, or its timer is armed
LeftBehind(c) ==
    \E id \in DOMAIN executions :
        /\ executions[id].call = c
        /\ id \in DOMAIN pendingExecutions \/ executions[id].timer = "armed"

\* the deadline ended the wait of getHover c
Abandoned(c) == hovers[c].waitEnded = "timeout"

\* C24: after the deadline of getHover ended its wait, inspectForHover goes on
\* to its end, and every execution it registered, before or after, leaves the
\* pending map with its timer cleared or fired: eventually the call has ended
\* and no pending entry and no armed timer of it remains.
C24_AbandonedCallIsReclaimed ==
    \A c \in CallIds :
        Abandoned(c) ~> (calls[c].pc = "returned" /\ ~LeftBehind(c))

\* an abandoned call that issued further operations after the deadline, ended
\* with a successful outcome, and left nothing behind
C24_Witness ==
    \E c \in CallIds :
        /\ Abandoned(c)
        /\ Returned(c)
        /\ calls[c].outcome.success
        /\ hovers[c].opsAtTimeout # calls[c].ops
        /\ "serializeObject" \notin hovers[c].opsAtTimeout
        /\ ~LeftBehind(c)


(***************************************************************************)
(* Properties of the standard-error chunks, under SpecKernel               *)
(***************************************************************************)
\* a chunk on standard error for the pending request at the head of the
\* kernel's queue
StderrForPending ==
    /\ IopubMessage("stderr")
    /\ Head(kernelQueue) \in DOMAIN pendingExecutions

\* C31: a standard-error chunk for a pending execution is emitted as a stream
\* event and nothing else happens: the accumulated output, the promise and the
\* timer of every execution stay as they were, so the chunk is in no resolved
\* result and an idle message after it finds the same output as before it.
C31_StderrIsNotAccumulated ==
    [][StderrForPending =>
          /\ lastEmit' = <<Event("stream", Head(kernelQueue), "stderr")>>
          /\ pendingExecutions' = pendingExecutions
          /\ executions' = executions]_vars

\* the stream event of a standard-error chunk was just emitted for an
\* execution that is still pending with no output at all
C31_Witness ==
    \E id \in DOMAIN pendingExecutions :
        /\ lastEmit = <<Event("stream", id, "stderr")>>
        /\ pendingExecutions[id] = <<>>
        /\ executions[id].promise.state = "pending"
        /\ executions[id].timer = "armed"


(***************************************************************************)
(* Properties of the listeners, under SpecListeners                        *)
(***************************************************************************)
Registered == {listeners[i] : i \in 1..Len(listeners)}

\* what the handler that emitted `event` has done to the client
TookPlace(event) ==
    CASE event.type = "state_change" ->
            \E i \in 1..Len(lastEmit) :
                /\ lastEmit[i].type = "state_change"
                /\ lastEmit[i].info = kstate
      [] event.type = "execution_result" ->
            /\ executions[event.msgId].promise.state = "resolved"
            /\ executions[event.msgId].timer = "cleared"
            /\ event.msgId \notin DOMAIN pendingExecutions
      [] event.type = "execution_error" ->
            /\ executions[event.msgId].promise.state = "rejected"
            /\ executions[event.msgId].timer = "cleared"
            /\ event.msgId \notin DOMAIN pendingExecutions
      [] OTHER -> TRUE

\* C32: whatever a listener does, no exception leaves _emit, every registered
\* listener is called with every event of the handler, and the state change or
\* the settlement and map removal that the event reports has taken place.
C32_ListenerExceptionsAreIsolated ==
    /\ ~heard.escaped
    /\ \A l \in Registered : heard.by[l] = lastEmit
    /\ \A i \in 1..Len(lastEmit) : TookPlace(lastEmit[i])

\* the throwing listener was registered first and the result of an execution
\* was emitted: the quiet listener after it got the event
C32_Witness ==
    /\ listeners = <<"throwing", "quiet">>
    /\ \E i \in 1..Len(lastEmit) : lastEmit[i].type = "execution_result"
    /\ heard.by["quiet"] = lastEmit
    /\ heard.by["throwing"] = lastEmit


(***************************************************************************)
(* Properties of concurrent executions, under SpecWire                     *)
(***************************************************************************)
\* an inbound message of one routing frame whose parent header names `parent`
MessageFor(parent) ==
    \E key \in WireKeys, mtype \in WireKinds : WireMessage(1, key, parent, mtype, "full")

\* every execution other than `parent` keeps its output, promise and timer
OthersUntouched(parent) ==
    \A id \in DOMAIN executions \ {parent} :
        /\ id \in DOMAIN executions'
        /\ executions'[id] = executions[id]
        /\ id \in DOMAIN pendingExecutions
              => /\ id \in DOMAIN pendingExecutions'
                 /\ pendingExecutions'[id] = pendingExecutions[id]

\* C33: an inbound message with parent id X touches only the pending execution
\* registered under X: the output, promise and timer of every other execution
\* stay as they were; and when X names no pending execution nothing changes
\* and nothing is emitted.
C33_MessagesReachOnlyTheirParent ==
    [][\A parent \in WireParents :
          MessageFor(parent) =>
              /\ OthersUntouched(parent)
              /\ parent \notin DOMAIN pendingExecutions => Dropped]_vars

\* two executions pending at once, where an output chunk for the first has
\* just been appended and the second has none
C33_Witness ==
    /\ DOMAIN pendingExecutions = {1, 2}
    /\ lastEmit = <<Event("stream", 1, "stdout")>>
    /\ pendingExecutions[1] # <<>>
    /\ pendingExecutions[2] = <<>>
    /\ executions[2].promise.state = "pending"
    /\ executions[2].timer = "armed"


(***************************************************************************)
(* Properties of the policy lookup, under SpecLookup                       *)
(***************************************************************************)
\* the name of the first and the last segment
Collapsed(t) == <<t[1], t[Len(t)]>>

\* the policy the lookup is to find for type name t in configuration cfg
PolicyFor(cfg, t) ==
    LET stored == IF cfg.def THEN cfg.typeInspections ELSE EmptyMap
    IN IF t \in DOMAIN stored THEN stored[t]
       ELSE IF Len(t) > 2 /\ Collapsed(t) \in DOMAIN stored THEN stored[Collapsed(t)]
       ELSE NoPolicy

C35_MapHoldsTheUnsettled ==
    /\ DOMAIN pendingExecutions =
          {id \in DOMAIN executions : executions[id].promise.state = "pending"}
    /\ \A id \in DOMAIN pendingExecutions : executions[id].timer = "armed"
    /\ \A id \in DOMAIN executions :
          ~executions[id].sent =>
              /\ executions[id].promise.state = "rejected"
              /\ id \notin DOMAIN pendingExecutions
              /\ executions[id].timer # "armed"


(***************************************************************************)
(* Properties of the kernel stages of inspectForHover, under Spec          *)
(***************************************************************************)
\* the messages execute() fails with in transport: its deadline, an error
\* reply, disconnect(), a send that throws, a client that is no longer connected
TransportErrors ==
    {"Timeout", "KernelError", "Disconnected", "SendFailed", "Not connected to kernel"}

\* stage `op` returned `res` from its catch block after such a failure
TransportFailed(op, res) ==
    /\ res.kind = "obj"
    /\ res.error \in TransportErrors
    /\ res = catchResult(op, res.error)

\* C36: a transport failure of a kernel stage is mapped by stage: validation
\* ends the call with ObjectNotFound; size estimation records a note and the
\* call goes on to serialization; serialization ends it with
\* SerializationFailed. The outcome is never KernelNotConnected and the call
\* never rejects.
C36_StageFailuresAreMappedByStage ==
    \A c \in CallIds :
        /\ TransportFailed("validateType", calls[c].typeValidation) =>
              /\ calls[c].pc = "done"
              /\ calls[c].outcome.state = "resolved"
              /\ ~calls[c].outcome.success
              /\ calls[c].outcome.failureReason = "ObjectNotFound"
              /\ calls[c].ops \cap {"estimateSize", "serializeObject", "inspect",
                                    "POST /inspect"} = {}
        /\ TransportFailed("estimateSize", calls[c].sizeResult) =>
              /\ "serializeObject" \in calls[c].ops
              /\ \E i \in 1..Len(calls[c].notes) :
                    calls[c].notes[i] = "Size estimation failed"
              /\ calls[c].pc = "done" =>
                    /\ calls[c].outcome.state = "resolved"
                    /\ calls[c].outcome.failureReason
                          \notin {"KernelNotConnected", "ObjectNotFound", "SizeExceeded"}
        /\ TransportFailed("serializeObject", calls[c].serialized) =>
              /\ calls[c].pc = "done"
              /\ calls[c].outcome.state = "resolved"
              /\ ~calls[c].outcome.success
              /\ calls[c].outcome.failureReason = "SerializationFailed"
              /\ "inspect" \notin calls[c].ops

\* a call that ended with SerializationFailed after its size estimation had
\* failed in transport and its serialization was rejected as well
C36_Witness ==
    \E c \in CallIds :
        /\ calls[c].pc = "done"
        /\ calls[c].outcome.failureReason = "SerializationFailed"
        /\ calls[c].sizeResult = catchResult("estimateSize", calls[c].sizeResult.error)
        /\ calls[c].sizeResult.error \in {"Timeout", "KernelError", "Disconnected"}
        /\ calls[c].serialized = catchResult("serializeObject", calls[c].serialized.error)
        /\ calls[c].serialized.error \in {"Timeout", "KernelError", "SendFailed"}


(***************************************************************************)
(* Properties of the availability seen by hovers, under SpecRecoveryFair   *)
(***************************************************************************)
\* initialize() has ended with everything in place but the inspection server,
\* whose health check did not answer ok
UnhealthyAtInitialize ==
    /\ initPc = "returned"
    /\ isInitialized /\ isEnabled(config) /\ isConnected
    /\ ic.def /\ ~ic.isServerAvailable

\* C37: when the inspection server was unhealthy at initialize() and is healthy
\* afterwards, then under repeated hover requests isAvailable() eventually
\* becomes true and a hover on a configured type calls inspectForHover.
C37_RecoversUnderHovers ==
    UnhealthyAtInitialize ~>
        (isAvailable /\ \E c \in CallIds : hovers[c].state = "waiting")


(***************************************************************************)
(* Properties of configuration changes, under SpecReload                   *)
(***************************************************************************)
\* connect() has been called in the step: it always enters Connecting
ConnectCalled ==
    \E i \in 1..Len(lastEmit') : lastEmit'[i] = Event("state_change", 0, "Connecting")

\* C38: when the watched file changes and the new configuration names another
\* kernel connection file than the one in effect before, the service
\* disconnects and connects with the new file; when the new port differs from
\* the previous one, the gateway client is replaced by a new one.
C38_ConfigChangeTakesEffect ==
    [][\A file \in ReloadFiles :
          (ConfigFileChange(file) /\ config.def /\ config'.def) =>
              /\ config'.connectionFile # config.connectionFile =>
                    (ConnectCalled /\ pendingExecutions' = EmptyMap)
              /\ (config'.port # config.port /\ ic.def) => ic' = NewClient]_vars


(***************************************************************************)
(* Properties of inspectForHover in reduced capability mode, under Spec    *)
(***************************************************************************)
\* Connected without transport
ReducedMode == isConnected /\ transport = "unavailable"

SyntheticError == JsonParse(MockLine, NoType).error

\* C39: in reduced capability mode a call that has passed the enabled, policy,
\* connection and gateway checks gets the synthetic result from its validation,
\* for which nothing is registered or sent, and ends with ObjectNotFound with
\* the synthetic error as its note; no size estimation, serialization or
\* gateway /inspect is issued.
C39_ReducedModeEndsWithObjectNotFound ==
    [][\A c \in CallIds :
          /\ (ReducedMode /\ calls[c].pc = "ensureAvailable"
                  /\ calls'[c].pc = "validateType") =>
                /\ UNCHANGED execVars
                /\ calls'[c].await.kind = "value"
                /\ calls'[c].await.res.error = SyntheticError
          /\ (ReducedMode /\ calls[c].pc = "validateType"
                  /\ calls'[c].pc # "validateType") =>
                /\ calls'[c].pc = "done"
                /\ calls'[c].outcome.state = "resolved"
                /\ calls'[c].outcome.failureReason = "ObjectNotFound"
                /\ calls'[c].outcome.notes = <<SyntheticError>>
                /\ calls'[c].ops \cap {"estimateSize", "serializeObject", "inspect",
                                       "POST /inspect"} = {}]_vars


(***************************************************************************)
(* Properties of the two availability checks of a call, under Spec         *)
(***************************************************************************)
\* C40: the availability is checked twice per call: by the pipeline before the
\* kernel stages and again inside inspect. When the second check gives false
\* (the cache went stale in between and the probe failed) inspect returns the
\* 'not available' envelope without sending POST /inspect and the call ends
\* with InspectionError. ServerUnavailable comes from the pipeline's own check
\* only, before any kernel operation.
C40_AvailabilityIsCheckedTwice ==
    [][\A c \in CallIds :
          /\ (calls'[c].pc = "validateType" /\ calls[c].pc # "validateType") =>
                (calls[c].pc = "ensureAvailable" /\ calls[c].await.res = Flag(TRUE))
          /\ (calls'[c].pc = "inspect" /\ calls[c].pc # "inspect") =>
                /\ calls[c].pc = "inspect.ensureAvailable"
                /\ ("POST /inspect" \in calls'[c].ops) <=> (calls[c].await.res = Flag(TRUE))
                /\ calls[c].await.res = Flag(FALSE) => "GET /health" \in calls[c].ops
          /\ (calls[c].pc = "inspect" /\ "POST /inspect" \notin calls[c].ops
                  /\ calls'[c].pc # "inspect") =>
                /\ calls'[c].pc = "done"
                /\ calls'[c].outcome.state = "resolved"
                /\ calls'[c].outcome.failureReason = "InspectionError"
                /\ calls'[c].outcome.notes = <<UnavailableEnvelope.error>>
                /\ calls'[c].gatewayReply.how = "none"
          /\ (calls'[c].pc = "done" /\ calls[c].pc # "done"
                  /\ calls'[c].outcome.state = "resolved"
                  /\ calls'[c].outcome.failureReason = "ServerUnavailable") =>
                /\ calls[c].pc \in {"idle", "ensureAvailable"}
                /\ calls'[c].ops \subseteq {"GET /health"}]_vars

\* a call whose first check gave true, whose serialization succeeded, and whose
\* inspect probed again, was refused and sent nothing
C40_Witness ==
    \E c \in CallIds :
        /\ calls[c].pc = "done"
        /\ calls[c].available = Flag(TRUE)
        /\ calls[c].serialized.kind = "obj" /\ calls[c].serialized.success
        /\ "inspect" \in calls[c].ops
        /\ "POST /inspect" \notin calls[c].ops
        /\ calls[c].outcome.failureReason = "InspectionError"
        /\ calls[c].outcome.notes = <<UnavailableEnvelope.error>>

====
